---- MODULE Spec2Model ----
(***************************************************************************)
(* State-machine model of the concurrency core of logimos/concurrent:      *)
(* MapConcurrent (mapreduce.go), Pool.Run / FanOut (pool.go, fan.go),      *)
(* the pipeline stages (pipeline.go) and FanIn / RoundRobin (fan.go).      *)
(*                                                                         *)
(* Every goroutine is a process with a program counter; an unbuffered      *)
(* channel operation is one rendezvous step of the two goroutines; a Go    *)
(* select with several ready cases is a nondeterministic choice among      *)
(* them; a send on a closed channel is recorded in a panic flag.           *)
(* Each component has its own specification; the variables of the other    *)
(* components stay at their initial values.                                *)
(***************************************************************************)
EXTENDS Integers, Sequences, FiniteSets, Bags, TLC

VARIABLES
    ctxDone,      \* the context passed to the component has been cancelled
    fnFail,       \* the values on which the user function fn returns an error
    \* ---- MapConcurrent (mapreduce.go)
    mcIn,         \* the input slice `in`
    mcN,          \* the parameter n as passed by the caller
    mcPc,         \* position of the calling goroutine
    mcI,          \* loop index i of the dispatch loop (1-based)
    mcSem,        \* number of tokens in the buffered channel sem
    mcWg,         \* counter of the WaitGroup wg
    mcOut,        \* the result slice out
    mcErrs,       \* content of the buffered channel errs (capacity 1)
    mcCancelled,  \* the local flag cancelled
    mcDone,       \* "none" | "open" | "closed": the channel done
    mcTask,       \* position of the goroutine launched for each index
    mcErr,        \* the error the caller received from errs
    mcRet,        \* what MapConcurrent returned
    \* ---- the streaming components: one record each
    pool,         \* Pool.Run / FanOut (pool.go, fan.go)
    tee,          \* the Tee stage (pipeline.go)
    pipe,         \* Pipeline.Run over Map / Filter stages (pipeline.go)
    batch,        \* the Batch stage (pipeline.go)
    fanin,        \* FanIn / Merge (fan.go, pipeline.go)
    rr,           \* RoundRobin (fan.go)
    fofi,         \* FanOutFanIn (fan.go)
    unbatch,      \* the Unbatch stage (pipeline.go)
    cb,           \* a CircuitBreaker and the callers of Execute (retry.go)
    retry,        \* one call of Retry (retry.go)
    rl            \* a rate limiter, alone or inside RateLimit (rate.go)

mcVars == <<mcIn, mcN, mcPc, mcI, mcSem, mcWg, mcOut, mcErrs,
            mcCancelled, mcDone, mcTask, mcErr, mcRet>>

\* the state a call of one component does not touch: the other components
mcOthers == <<pool, tee, pipe, batch, fanin, rr, fofi, unbatch, cb, retry, rl>>
poolOthers == <<mcVars, tee, pipe, batch, fanin, rr, fofi, unbatch, cb,
        retry, rl>>
teeOthers == <<mcVars, pool, pipe, batch, fanin, rr, fofi, unbatch, cb,
        retry, rl>>
pipeOthers == <<mcVars, pool, tee, batch, fanin, rr, fofi, unbatch, cb,
        retry, rl>>
batchOthers == <<mcVars, pool, tee, pipe, fanin, rr, fofi, unbatch, cb,
        retry, rl>>
faninOthers == <<mcVars, pool, tee, pipe, batch, rr, fofi, unbatch, cb,
        retry, rl>>
rrOthers == <<mcVars, pool, tee, pipe, batch, fanin, fofi, unbatch, cb,
        retry, rl>>
fofiOthers == <<mcVars, pool, tee, pipe, batch, fanin, rr, unbatch, cb,
        retry, rl>>
unbatchOthers == <<mcVars, pool, tee, pipe, batch, fanin, rr, fofi, cb,
        retry, rl>>
cbOthers == <<mcVars, pool, tee, pipe, batch, fanin, rr, fofi, unbatch,
        retry, rl>>
retryOthers == <<mcVars, pool, tee, pipe, batch, fanin, rr, fofi, unbatch,
        cb, rl>>
rlOthers == <<mcVars, pool, tee, pipe, batch, fanin, rr, fofi, unbatch, cb, retry>>

\* ------------------------------------------------------------------ bounds
MaxLen == 3       \* longest input slice / stream
MaxN == 2         \* largest concurrency / worker count
MaxAux == 2       \* most auxiliary outputs given to Tee
MaxStages == 2    \* most stages registered on a pipeline
MaxClose == 2     \* most calls of Pipeline.Close
MaxBatch == 3     \* largest batch size given to Batch
MaxBatchLen == 7   \* longest input of Batch
MaxPer == 2       \* most items of one source stream of FanIn
MaxFoN == 2       \* largest worker count given to FanOutFanIn
MaxFoLen == 2     \* longest input stream of FanOutFanIn
MaxCancelLen == 1 \* longest input stream of the fan forms under cancellation
MaxGroups == 3    \* most groups sent to Unbatch
MaxGroup == 2     \* most items of one group sent to Unbatch
MaxCallers == 2   \* most goroutines calling Execute on one CircuitBreaker
MaxCalls == 4     \* most calls of Execute on one CircuitBreaker
MaxThreshold == 2 \* largest failureThreshold of a CircuitBreaker
MaxTimeout == 2   \* longest resetTimeout of a CircuitBreaker, in clock ticks
MaxTime == 3      \* last tick of the clock
MaxRetries == 2   \* largest RetryConfig.MaxRetries
MaxLimit == 1     \* largest limit given to a rate limiter
MaxBurst == 3     \* largest burst given to NewBurstRateLimit
MaxInterval == 2  \* longest interval of a rate limiter, in clock ticks
MaxAllow == 3     \* most calls of Allow on one rate limiter
MaxWaits == 1     \* most calls of Wait on one rate limiter

\* The components never inspect an item (only fn does), so the inputs are
\* the slices / streams <<1, ..., L>>, as in the tests.
Vals == 1..MaxLen

\* ------------------------------------------------------------ shared helpers
Iota(L) == [i \in 1..L |-> i]

\* The user function the tests pass to the components: v * 2.
FnVal(v) == 2 * v

\* error values: nil, the context's error, the error fn returned for item v
NilErr == [kind |-> "nil", item |-> 0]
CtxErr == [kind |-> "ctx", item |-> 0]
FnErr(v) == [kind |-> "fn", item |-> v]

\* a Go slice: nil, or its elements
NilSlice == [isNil |-> TRUE, elems |-> <<>>]
Slice(s) == [isNil |-> FALSE, elems |-> s]

\* cancellation of the context: by the caller, at any moment
Cancel ==
    /\ ~ctxDone
    /\ ctxDone' = TRUE

\* ------------------------------------------- components that are not in use
\* Pool.Run / FanOut before any pool exists
PoolOff ==
    [pc |-> "off", workersArg |-> 1, workers |-> 1, jobs |-> <<>>,
     jobsClosed |-> FALSE,
     wpc |-> [w \in 1..MaxN |-> "none"], item |-> [w \in 1..MaxN |-> 0],
     wg |-> 0, closer |-> "none", closes |-> 0, panic |-> FALSE,
     recvd |-> <<>>, emitted |-> <<>>]

\* Tee before the stage is started
TeeOff ==
    [pc |-> "off", nAux |-> 0, src |-> <<>>, input |-> <<>>, inClosed |-> FALSE,
     item |-> 0,
     snd |-> [k \in 1..MaxAux |-> "none"], wg |-> 0,
     closeIdx |-> 1, auxCloses |-> [k \in 1..MaxAux |-> 0], outCloses |-> 0,
     panic |-> FALSE,
     auxGot |-> [k \in 1..MaxAux |-> <<>>], mainGot |-> <<>>]

\* Pipeline before NewPipeline
PipeOff ==
    [pc |-> "off", stages |-> <<>>, calls |-> <<>>, src |-> <<>>, input |-> <<>>,
     inClosed |-> FALSE, closeCalls |-> 0,
     spc |-> [j \in 1..MaxStages |-> "none"], held |-> [j \in 1..MaxStages |-> 0],
     closes |-> [j \in 1..MaxStages |-> 0], got |-> <<>>]

\* Batch before the stage is started
BatchOff ==
    [pc |-> "off", sizeArg |-> 1, size |-> 1, src |-> <<>>, input |-> <<>>,
     inClosed |-> FALSE, buf |-> <<>>, closes |-> 0, got |-> <<>>]

\* FanIn / Merge before the call
FanInOff ==
    [pc |-> "off", n |-> 0, per |-> 0, input |-> [k \in 1..MaxN |-> <<>>],
     inClosed |-> [k \in 1..MaxN |-> FALSE],
     fpc |-> [k \in 1..MaxN |-> "none"],
     held |-> [k \in 1..MaxN |-> [from |-> 0, no |-> 0]],
     wg |-> 0, closer |-> "none", closes |-> 0, panic |-> FALSE, got |-> <<>>]

\* RoundRobin before the call; got counts the emissions of each result
RROff ==
    [pc |-> "off", workersArg |-> 1, workers |-> 1, src |-> <<>>, input |-> <<>>,
     inClosed |-> FALSE,
     dpc |-> "none", dItem |-> 0, workerIndex |-> 0, closeIdx |-> 1,
     chCloses |-> [w \in 1..MaxN |-> 0], assigned |-> [w \in 1..MaxN |-> <<>>],
     wpc |-> [w \in 1..MaxN |-> "none"], wItem |-> [w \in 1..MaxN |-> 0],
     wCloser |-> [w \in 1..MaxN |-> "none"], wOutCloses |-> [w \in 1..MaxN |-> 0],
     fpc |-> [w \in 1..MaxN |-> "none"], fHeld |-> [w \in 1..MaxN |-> 0],
     wg |-> 0, closer |-> "none", closes |-> 0, panic |-> FALSE,
     got |-> [r \in {FnVal(v) : v \in Vals} |-> 0]]

\* FanOutFanIn before the call; got counts the emissions of each result
FofiOff ==
    [pc |-> "off", workersArg |-> 1, src |-> <<>>, input |-> <<>>, inClosed |-> FALSE,
     dpc |-> [w \in 1..MaxFoN |-> "none"], dItem |-> [w \in 1..MaxFoN |-> 0],
     chCloses |-> [w \in 1..MaxFoN |-> 0],
     wpc |-> [w \in 1..MaxFoN |-> "none"], wItem |-> [w \in 1..MaxFoN |-> 0],
     wCloser |-> [w \in 1..MaxFoN |-> "none"], wOutCloses |-> [w \in 1..MaxFoN |-> 0],
     fpc |-> [w \in 1..MaxFoN |-> "none"], fHeld |-> [w \in 1..MaxFoN |-> 0],
     wg |-> 0, closer |-> "none", closes |-> 0, panic |-> FALSE,
     got |-> [r \in {FnVal(v) : v \in Vals} |-> 0]]

\* Unbatch before the stage is started
UnbatchOff ==
    [pc |-> "off", src |-> <<>>, input |-> <<>>, inClosed |-> FALSE,
     batch |-> <<>>, idx |-> 1, closes |-> 0, got |-> <<>>]

\* retry.go:174-178: the states of a CircuitBreaker
StateClosed == 0
StateOpen == 1
StateHalfOpen == 2

\* no CircuitBreaker made.  now is the clock; log is what the calls of
\* Execute returned, in the order of their last critical section: "ctx"
\* (context error), "open" (rejected), "fail" (the error of fn), "ok" (nil);
\* trial[c] tells that caller c was let through to fn by a half-open breaker
CbOff ==
    [pc |-> "off", failureThreshold |-> 1, resetTimeout |-> 0,
     state |-> StateClosed, failureCount |-> 0, lastFailureTime |-> 0,
     now |-> 0,
     cpc |-> [c \in 1..MaxCallers |-> "idle"],
     trial |-> [c \in 1..MaxCallers |-> FALSE],
     log |-> <<>>]

\* an error value of Retry's fn: kind "plain" is any error that holds no
\* RetryableError, "retryable" a RetryableError with its Retryable flag;
\* no is the attempt that returned it (0: none)
RetryErr(kind, flag, no) == [kind |-> kind, flag |-> flag, no |-> no]
RetryNil == RetryErr("nil", FALSE, 0)
RetryCtxErr == RetryErr("ctx", FALSE, 0)

\* Retry not called; outcomes is what the invocations of fn returned, in
\* order, delays the number of backoff delays that ran to their end
RetryOff ==
    [pc |-> "off", maxRetries |-> 0, attempt |-> 0, lastErr |-> RetryNil,
     outcomes |-> <<>>, delays |-> 0, ret |-> RetryNil]

\* time.Second, in clock ticks
Second == 2

\* No rate limiter made. elapsed is the time since lastRefill, rfBy the
\* caller of Refill that holds mu, rfLeft the iterations its loop has left
\* and rfSince the time since it read the clock; mpc is the goroutine in
\* Wait (RateLimit's main goroutine, or a caller of Wait), tpc RateLimit's
\* refill goroutine; allowed and waits are what Allow and Wait returned.
RlOff ==
    [pc |-> "off", kind |-> "rate", limitArg |-> 1, burstArg |-> 0,
     limit |-> 1, burst |-> 1, interval |-> 1, tokens |-> 0, elapsed |-> 0,
     rfBy |-> "none", rfLeft |-> 0, rfSince |-> 0, refilled |-> FALSE,
     mpc |-> "none", tpc |-> "none", allowed |-> <<>>, waits |-> <<>>,
     src |-> <<>>, input |-> <<>>, inClosed |-> FALSE, held |-> 0,
     got |-> <<>>, closes |-> 0]

\* MapConcurrent not called
McIdle ==
    /\ mcIn = <<>> /\ mcN = 1
    /\ mcPc = "off" /\ mcI = 1 /\ mcSem = 0 /\ mcWg = 0
    /\ mcOut = <<>> /\ mcErrs = <<>> /\ mcCancelled = FALSE
    /\ mcDone = "none" /\ mcTask = <<>> /\ mcErr = NilErr
    /\ mcRet = [out |-> NilSlice, err |-> NilErr]

\* every component but c is not in use
Idle(c) ==
    /\ IF c = "mc" THEN TRUE ELSE McIdle
    /\ IF c = "pool" THEN TRUE ELSE pool = PoolOff
    /\ IF c = "tee" THEN TRUE ELSE tee = TeeOff
    /\ IF c = "pipe" THEN TRUE ELSE pipe = PipeOff
    /\ IF c = "batch" THEN TRUE ELSE batch = BatchOff
    /\ IF c = "fanin" THEN TRUE ELSE fanin = FanInOff
    /\ IF c = "rr" THEN TRUE ELSE rr = RROff
    /\ IF c = "fofi" THEN TRUE ELSE fofi = FofiOff
    /\ IF c = "unbatch" THEN TRUE ELSE unbatch = UnbatchOff
    /\ IF c = "cb" THEN TRUE ELSE cb = CbOff
    /\ IF c = "retry" THEN TRUE ELSE retry = RetryOff
    /\ IF c = "rl" THEN TRUE ELSE rl = RlOff

\* -------------------------------------------------------- MapConcurrent
\* a coercion of n <= 0 to two tokens instead of one
CoerceNTwo(n) == IF n <= 0 THEN 2 ELSE n

\* mapreduce.go:12-14
CoerceN(n) == IF n <= 0 THEN 1 ELSE n

McInit ==
    /\ ctxDone = FALSE
    /\ Idle("mc")
    /\ mcIn \in {Iota(L) : L \in 0..MaxLen}
    /\ mcN \in 0..MaxN
    /\ fnFail \in SUBSET (1..Len(mcIn))
    /\ mcPc = "entry" /\ mcI = 1 /\ mcSem = 0 /\ mcWg = 0
    /\ mcOut = <<>> /\ mcErrs = <<>> /\ mcCancelled = FALSE
    /\ mcDone = "none" /\ mcTask = [i \in 1..Len(mcIn) |-> "unborn"]
    /\ mcErr = NilErr
    /\ mcRet = [out |-> NilSlice, err |-> NilErr]

\* mapreduce.go:12-25: empty input returns at once; otherwise allocate
McEnter ==
    /\ mcPc = "entry"
    /\ IF Len(mcIn) = 0
       THEN /\ mcPc' = "returned"
            /\ mcRet' = [out |-> Slice(<<>>), err |-> NilErr]
            /\ UNCHANGED mcOut
       ELSE /\ mcPc' = "loop"
            /\ mcOut' = [i \in 1..Len(mcIn) |-> 0]
            /\ UNCHANGED mcRet
    /\ UNCHANGED <<mcOthers, ctxDone, fnFail, mcIn, mcN, mcI, mcSem, mcWg, mcErrs,
                   mcCancelled, mcDone, mcTask, mcErr>>

\* mapreduce.go:27-45: loop head; the ctx check, then wg.Add(1)
McLoop ==
    /\ mcPc = "loop"
    /\ IF mcI > Len(mcIn)
       THEN /\ mcPc' = "waitComplete"
            /\ UNCHANGED <<mcCancelled, mcWg>>
       ELSE IF ctxDone \/ mcCancelled
       THEN /\ mcCancelled' = TRUE
            /\ mcPc' = "waitComplete"
            /\ UNCHANGED mcWg
       ELSE /\ mcWg' = mcWg + 1
            /\ mcPc' = "acquire"
            /\ UNCHANGED mcCancelled
    /\ UNCHANGED <<mcOthers, ctxDone, fnFail, mcIn, mcN, mcI, mcSem, mcOut, mcErrs,
                   mcDone, mcTask, mcErr, mcRet>>

\* mapreduce.go:46-48: sem <- struct{}{} blocks while n tokens are out,
\* then the goroutine for index i is launched
McAcquire ==
    /\ mcPc = "acquire"
    /\ mcSem < CoerceN(mcN)
    /\ mcSem' = mcSem + 1
    /\ mcTask' = [mcTask EXCEPT ![mcI] = "check"]
    /\ mcI' = mcI + 1
    /\ mcPc' = "loop"
    /\ UNCHANGED <<mcOthers, ctxDone, fnFail, mcIn, mcN, mcWg, mcOut, mcErrs,
                   mcCancelled, mcDone, mcErr, mcRet>>

\* mapreduce.go:52-59: the goroutine's ctx check, then the call of fn
McTaskCheck(i) ==
    /\ i <= Len(mcIn)
    /\ mcTask[i] = "check"
    /\ mcTask' = [mcTask EXCEPT ![i] = IF ctxDone THEN "release" ELSE "fn"]
    /\ UNCHANGED <<mcOthers, ctxDone, fnFail, mcIn, mcN, mcPc, mcI, mcSem, mcWg, mcOut,
                   mcErrs, mcCancelled, mcDone, mcErr, mcRet>>

\* mapreduce.go:61-64: non-blocking send of the error on errs (capacity 1)
TrySendErr(ch, e) == IF Len(ch) < 1 THEN Append(ch, e) ELSE ch

\* mapreduce.go:59-71: fn returns; an error goes to errs, a result to out[i]
McTaskFn(i) ==
    /\ i <= Len(mcIn)
    /\ mcTask[i] = "fn"
    /\ IF mcIn[i] \in fnFail
       THEN /\ mcErrs' = TrySendErr(mcErrs, FnErr(mcIn[i]))
            /\ UNCHANGED mcOut
       ELSE /\ mcOut' = [mcOut EXCEPT ![i] = FnVal(mcIn[i])]
            /\ UNCHANGED mcErrs
    /\ mcTask' = [mcTask EXCEPT ![i] = "release"]
    /\ UNCHANGED <<mcOthers, ctxDone, fnFail, mcIn, mcN, mcPc, mcI, mcSem, mcWg,
                   mcCancelled, mcDone, mcErr, mcRet>>

\* mapreduce.go:50: deferred <-sem
McTaskRelease(i) ==
    /\ i <= Len(mcIn)
    /\ mcTask[i] = "release"
    /\ mcSem' = mcSem - 1
    /\ mcTask' = [mcTask EXCEPT ![i] = "wgDone"]
    /\ UNCHANGED <<mcOthers, ctxDone, fnFail, mcIn, mcN, mcPc, mcI, mcWg, mcOut, mcErrs,
                   mcCancelled, mcDone, mcErr, mcRet>>

\* mapreduce.go:49: deferred wg.Done()
McTaskDone(i) ==
    /\ i <= Len(mcIn)
    /\ mcTask[i] = "wgDone"
    /\ mcWg' = mcWg - 1
    /\ mcTask' = [mcTask EXCEPT ![i] = "exited"]
    /\ UNCHANGED <<mcOthers, ctxDone, fnFail, mcIn, mcN, mcPc, mcI, mcSem, mcOut, mcErrs,
                   mcCancelled, mcDone, mcErr, mcRet>>

\* mapreduce.go:77-81: make(done) and launch the completion goroutine
McWaitComplete ==
    /\ mcPc = "waitComplete"
    /\ mcDone' = "open"
    /\ mcPc' = "select"
    /\ UNCHANGED <<mcOthers, ctxDone, fnFail, mcIn, mcN, mcI, mcSem, mcWg, mcOut, mcErrs,
                   mcCancelled, mcTask, mcErr, mcRet>>

\* a completion goroutine whose Wait returns with one task still counted
McCloserEarly ==
    /\ mcDone = "open"
    /\ mcWg <= 1
    /\ mcDone' = "closed"
    /\ UNCHANGED <<mcOthers, ctxDone, fnFail, mcIn, mcN, mcPc, mcI, mcSem, mcWg, mcOut,
                   mcErrs, mcCancelled, mcTask, mcErr, mcRet>>

\* mapreduce.go:78-81: wg.Wait() returns when the counter is 0; close(done)
McCloser ==
    /\ mcDone = "open"
    /\ mcWg = 0
    /\ mcDone' = "closed"
    /\ UNCHANGED <<mcOthers, ctxDone, fnFail, mcIn, mcN, mcPc, mcI, mcSem, mcWg, mcOut,
                   mcErrs, mcCancelled, mcTask, mcErr, mcRet>>

\* mapreduce.go:83-98: the final select; every ready case may be chosen
McSelectCtx ==
    /\ mcPc = "select"
    /\ ctxDone
    /\ mcPc' = "awaitCtx"
    /\ UNCHANGED <<mcOthers, ctxDone, fnFail, mcIn, mcN, mcI, mcSem, mcWg, mcOut, mcErrs,
                   mcCancelled, mcDone, mcTask, mcErr, mcRet>>

McSelectErr ==
    /\ mcPc = "select"
    /\ Len(mcErrs) > 0
    /\ mcErr' = Head(mcErrs)
    /\ mcErrs' = Tail(mcErrs)
    /\ mcPc' = IF Head(mcErrs) # NilErr THEN "awaitErr" ELSE "awaitOut"
    /\ UNCHANGED <<mcOthers, ctxDone, fnFail, mcIn, mcN, mcI, mcSem, mcWg, mcOut,
                   mcCancelled, mcDone, mcTask, mcRet>>

McSelectDone ==
    /\ mcPc = "select"
    /\ mcDone = "closed"
    /\ mcPc' = "returned"
    /\ mcRet' = [out |-> Slice(mcOut), err |-> NilErr]
    /\ UNCHANGED <<mcOthers, ctxDone, fnFail, mcIn, mcN, mcI, mcSem, mcWg, mcOut, mcErrs,
                   mcCancelled, mcDone, mcTask, mcErr>>

\* mapreduce.go:86-87, 91-92, 94-95: <-done, then return
McAwaitDone ==
    /\ mcPc \in {"awaitCtx", "awaitErr", "awaitOut"}
    /\ mcDone = "closed"
    /\ mcPc' = "returned"
    /\ mcRet' = CASE mcPc = "awaitCtx" -> [out |-> NilSlice, err |-> CtxErr]
                  [] mcPc = "awaitErr" -> [out |-> NilSlice, err |-> mcErr]
                  [] OTHER -> [out |-> Slice(mcOut), err |-> NilErr]
    /\ UNCHANGED <<mcOthers, ctxDone, fnFail, mcIn, mcN, mcI, mcSem, mcWg, mcOut, mcErrs,
                   mcCancelled, mcDone, mcTask, mcErr>>

McCancel == Cancel /\ mcPc # "returned" /\ UNCHANGED <<mcOthers, fnFail, mcVars>>

McNext ==
    \/ McEnter
    \/ McLoop
    \/ McAcquire
    \/ \E i \in 1..MaxLen : McTaskCheck(i)
    \/ \E i \in 1..MaxLen : McTaskFn(i)
    \/ \E i \in 1..MaxLen : McTaskRelease(i)
    \/ \E i \in 1..MaxLen : McTaskDone(i)
    \/ McWaitComplete
    \/ McCloser
    \/ McSelectCtx
    \/ McSelectErr
    \/ McSelectDone
    \/ McAwaitDone
    \/ McCancel


\* ------------------------------------------------------- Pool.Run, FanOut
\* a pool that keeps the count it was given
NewPoolWorkersAsGiven(n) == n

\* pool.go:18-21: if n <= 0 { n = 1 }
NewPoolWorkers(n) == IF n <= 0 THEN 1 ELSE n

\* The state after NewPool(n, fn): the caller holds the pool and a jobs
\* channel on which a producer will send the items of `jobs`.
PoolInitOf(counts) ==
    /\ ctxDone = FALSE
    /\ Idle("pool")
    /\ \E n \in counts, L \in 0..MaxLen :
          /\ pool = [PoolOff EXCEPT !.pc = "new", !.workersArg = n,
                                    !.workers = NewPoolWorkers(n),
                                    !.jobs = Iota(L)]
          /\ fnFail \in SUBSET (1..L)

PoolInit == PoolInitOf(0..MaxN)

\* fan.go:11-13: if workers <= 0 { workers = 1 }
FanOutWorkers(n) == IF n <= 0 THEN 1 ELSE n

\* The state after FanOut(ctx, input, n, fn) returned (fan.go:10-53): the
\* same goroutines as those of Pool.Run, workers reading the shared input
\* (fan.go:19-44) and the closer (fan.go:47-50), are running.
FanOutInitOf(counts) ==
    /\ ctxDone = FALSE
    /\ Idle("pool")
    /\ \E n \in counts, L \in 0..MaxLen :
          /\ pool = [PoolOff EXCEPT
                       !.pc = "running", !.workersArg = n,
                       !.workers = FanOutWorkers(n),
                       !.jobs = Iota(L),
                       !.wg = FanOutWorkers(n),
                       !.wpc = [w \in 1..MaxN |->
                                  IF w <= FanOutWorkers(n) THEN "select" ELSE "none"],
                       !.closer = "wait"]
          /\ fnFail \in SUBSET (1..L)

PoolWorkers == 1..pool.workers

\* pool.go:27-30: wg.Add(p.workers)
RunWgAdd(workers) == workers

\* pool.go:26-64: Run makes results, adds the workers to wg, launches the
\* workers and the closer and returns
PoolRun ==
    /\ pool.pc = "new"
    /\ pool' = [pool EXCEPT !.pc = "running",
                            !.wg = RunWgAdd(pool.workers),
                            !.wpc = [w \in 1..MaxN |->
                                       IF w <= pool.workers THEN "select" ELSE "none"],
                            !.closer = "wait"]
    /\ UNCHANGED <<poolOthers, ctxDone, fnFail>>

\* a worker whose result send does not watch ctx.Done()
CancelPointsRecvOnly == {"select"}

\* pool.go:36-38, 48-50: both selects of the worker have a ctx.Done() case
CancelPoints == {"select", "send"}

\* pool.go:34, 37-38, 49-50: a select whose ctx.Done() case is ready; the
\* worker returns and the deferred wg.Done() runs
WorkerCancel(w) ==
    /\ pool.wpc[w] \in CancelPoints
    /\ ctxDone
    /\ pool' = [pool EXCEPT !.wpc[w] = "exited", !.wg = pool.wg - 1]
    /\ UNCHANGED <<poolOthers, ctxDone, fnFail>>

\* a receive that leaves the item for the next receiver as well
JobsAfterRecvKept(jobs) == jobs

\* pool.go:39: a receive takes the item off the channel; no other worker
\* receives it
JobsAfterRecv(jobs) == Tail(jobs)

\* pool.go:39: j, ok := <-jobs with ok: the producer's send is taken
WorkerRecv(w) ==
    /\ pool.wpc[w] = "select"
    /\ pool.jobs # <<>>
    /\ pool' = [pool EXCEPT !.wpc[w] = "fn", !.item[w] = Head(pool.jobs),
                            !.jobs = JobsAfterRecv(pool.jobs),
                            !.recvd = Append(pool.recvd, Head(pool.jobs))]
    /\ UNCHANGED <<poolOthers, ctxDone, fnFail>>

\* pool.go:39-42: the receive reports the channel closed; the worker returns
WorkerJobsClosed(w) ==
    /\ pool.wpc[w] = "select"
    /\ pool.jobs = <<>> /\ pool.jobsClosed
    /\ pool' = [pool EXCEPT !.wpc[w] = "exited", !.wg = pool.wg - 1]
    /\ UNCHANGED <<poolOthers, ctxDone, fnFail>>

\* a worker that forgets the `continue` and sends the zero result
AfterFnNoDrop(v) == "send"

\* pool.go:45-47: an error of fn drops the item (continue); otherwise the
\* worker goes on to send the result
AfterFn(v) == IF v \in fnFail THEN "select" ELSE "send"

\* pool.go:44-47: r, err := p.fn(ctx, j) returns
WorkerFn(w) ==
    /\ pool.wpc[w] = "fn"
    /\ pool' = [pool EXCEPT !.wpc[w] = AfterFn(pool.item[w]),
                            !.item[w] = IF AfterFn(pool.item[w]) = "send"
                                        THEN FnVal(pool.item[w]) ELSE 0]
    /\ UNCHANGED <<poolOthers, ctxDone, fnFail>>

\* pool.go:51: results <- r is taken by the consumer; on a closed channel
\* the send panics
WorkerSend(w) ==
    /\ pool.wpc[w] = "send"
    /\ IF pool.closes > 0
       THEN pool' = [pool EXCEPT !.wpc[w] = "exited", !.panic = TRUE]
       ELSE pool' = [pool EXCEPT !.wpc[w] = "select", !.item[w] = 0,
                                 !.emitted = Append(pool.emitted, pool.item[w])]
    /\ UNCHANGED <<poolOthers, ctxDone, fnFail>>

\* a closer that stops waiting while one worker is still running
CloserReadyOffByOne(wg) == wg <= 1

\* pool.go:60: wg.Wait() returns when the counter is 0
CloserReady(wg) == wg = 0

\* pool.go:59-62: the closer: wg.Wait(); close(results)
PoolCloser ==
    /\ pool.closer = "wait"
    /\ CloserReady(pool.wg)
    /\ pool' = [pool EXCEPT !.closer = "exited", !.closes = pool.closes + 1]
    /\ UNCHANGED <<poolOthers, ctxDone, fnFail>>

\* the producer of jobs closes the channel after its last item was taken
ProducerClose ==
    /\ pool.pc = "running"
    /\ pool.jobs = <<>> /\ ~pool.jobsClosed
    /\ pool' = [pool EXCEPT !.jobsClosed = TRUE]
    /\ UNCHANGED <<poolOthers, ctxDone, fnFail>>

PoolCancel ==
    /\ Cancel
    /\ pool.pc # "off" /\ pool.closes = 0
    /\ UNCHANGED <<poolOthers, fnFail, pool>>

PoolNext ==
    \/ PoolRun
    \/ \E w \in 1..MaxN : WorkerCancel(w)
    \/ \E w \in 1..MaxN : WorkerRecv(w)
    \/ \E w \in 1..MaxN : WorkerJobsClosed(w)
    \/ \E w \in 1..MaxN : WorkerFn(w)
    \/ \E w \in 1..MaxN : WorkerSend(w)
    \/ PoolCloser
    \/ ProducerClose
    \/ PoolCancel


\* ------------------------------------------------------------------- Tee
\* The state after Tee(outputs...)(ctx, input) returned: the stage goroutine
\* is at its loop head; a producer will send the items of `input`.
TeeInit ==
    /\ ctxDone = FALSE
    /\ fnFail = {}
    /\ Idle("tee")
    /\ \E n \in 1..MaxAux, L \in 0..MaxLen :
          tee = [TeeOff EXCEPT !.pc = "recv", !.nAux = n, !.src = Iota(L),
                               !.input = Iota(L)]

\* pipeline.go:238-239: the loop-head select takes ctx.Done(); return
TeeCancelRecv ==
    /\ tee.pc = "recv"
    /\ ctxDone
    /\ tee' = [tee EXCEPT !.pc = "closing"]
    /\ UNCHANGED <<teeOthers, ctxDone, fnFail>>

\* pipeline.go:240-256: an item is received; one sender goroutine per
\* auxiliary output is launched with wg.Add(1)
TeeRecv ==
    /\ tee.pc = "recv"
    /\ tee.input # <<>>
    /\ tee' = [tee EXCEPT !.pc = "sendMain", !.item = Head(tee.input),
                          !.input = Tail(tee.input),
                          !.snd = [k \in 1..MaxAux |->
                                     IF k <= tee.nAux THEN "pending" ELSE "none"],
                          !.wg = tee.nAux]
    /\ UNCHANGED <<teeOthers, ctxDone, fnFail>>

\* pipeline.go:240-243: the input is closed and drained; return
TeeInputClosed ==
    /\ tee.pc = "recv"
    /\ tee.input = <<>> /\ tee.inClosed
    /\ tee' = [tee EXCEPT !.pc = "closing"]
    /\ UNCHANGED <<teeOthers, ctxDone, fnFail>>

\* pipeline.go:262: output <- item is taken by the consumer
TeeSendMain ==
    /\ tee.pc = "sendMain"
    /\ tee' = [tee EXCEPT !.pc = "wait", !.mainGot = Append(tee.mainGot, tee.item)]
    /\ UNCHANGED <<teeOthers, ctxDone, fnFail>>

\* pipeline.go:260-261: the primary select takes ctx.Done(); return, with
\* the senders of this item not waited for
TeeCancelSend ==
    /\ tee.pc = "sendMain"
    /\ ctxDone
    /\ tee' = [tee EXCEPT !.pc = "closing"]
    /\ UNCHANGED <<teeOthers, ctxDone, fnFail>>

\* a stage that goes on to the next item without waiting for the senders
TeeWaitReadyNoWait(wg) == TRUE

\* pipeline.go:266: wg.Wait() returns when every sender of the item is done
TeeWaitReady(wg) == wg = 0

\* pipeline.go:266: wg.Wait() returns, back to the loop head
TeeWait ==
    /\ tee.pc = "wait"
    /\ TeeWaitReady(tee.wg)
    /\ tee' = [tee EXCEPT !.pc = "recv", !.item = 0,
                          !.snd = [k \in 1..MaxAux |-> "none"]]
    /\ UNCHANGED <<teeOthers, ctxDone, fnFail>>

\* pipeline.go:230-234: the deferred loop closes the next auxiliary output
TeeCloseAux ==
    /\ tee.pc = "closing"
    /\ tee.closeIdx <= tee.nAux
    /\ tee' = [tee EXCEPT !.auxCloses[tee.closeIdx] = @ + 1,
                          !.closeIdx = @ + 1]
    /\ UNCHANGED <<teeOthers, ctxDone, fnFail>>

\* pipeline.go:228: the deferred close(output), after the auxiliary closes
TeeCloseOut ==
    /\ tee.pc = "closing"
    /\ tee.closeIdx > tee.nAux
    /\ tee' = [tee EXCEPT !.pc = "exited", !.outCloses = @ + 1]
    /\ UNCHANGED <<teeOthers, ctxDone, fnFail>>

\* pipeline.go:250-252: a sender's select takes ctx.Done(); wg.Done()
SenderCancel(k) ==
    /\ tee.snd[k] = "pending"
    /\ ctxDone
    /\ tee' = [tee EXCEPT !.snd[k] = "done", !.wg = @ - 1]
    /\ UNCHANGED <<teeOthers, ctxDone, fnFail>>

\* pipeline.go:253: a sender's select takes ch <- item: the consumer of the
\* auxiliary output receives it; on a closed channel the send panics
SenderSend(k) ==
    /\ tee.snd[k] = "pending"
    /\ IF tee.auxCloses[k] > 0
       THEN tee' = [tee EXCEPT !.snd[k] = "done", !.panic = TRUE]
       ELSE tee' = [tee EXCEPT !.snd[k] = "done", !.wg = @ - 1,
                               !.auxGot[k] = Append(@, tee.item)]
    /\ UNCHANGED <<teeOthers, ctxDone, fnFail>>

\* the producer closes the input after its last item was taken
TeeProducerClose ==
    /\ tee.pc # "off"
    /\ tee.input = <<>> /\ ~tee.inClosed
    /\ tee' = [tee EXCEPT !.inClosed = TRUE]
    /\ UNCHANGED <<teeOthers, ctxDone, fnFail>>

TeeCancel == Cancel /\ tee.pc # "exited" /\ UNCHANGED <<teeOthers, fnFail, tee>>

\* the steps of a run whose context is never cancelled
TeeRunNext ==
    \/ TeeRecv
    \/ TeeInputClosed
    \/ TeeSendMain
    \/ TeeWait
    \/ TeeCloseAux
    \/ TeeCloseOut
    \/ \E k \in 1..MaxAux : SenderSend(k)
    \/ TeeProducerClose

\* the cancellation and the steps it enables
TeeCancelNext ==
    \/ TeeCancelRecv
    \/ TeeCancelSend
    \/ \E k \in 1..MaxAux : SenderCancel(k)
    \/ TeeCancel

TeeNext ==
    \/ TeeRunNext
    \/ TeeCancelNext


\* -------------------------------------------- Pipeline over Map and Filter
\* the stages the tests register: Map(v * 2), Map(v + 1), Filter(v > 2)
StageKinds == {"double", "inc", "big"}
IsMap(kind) == kind \in {"double", "inc", "copy"}

\* a pass-through goroutine that alters the item
MapFnAltering(kind, v) ==
    CASE kind = "double" -> v * 2
      [] kind = "inc" -> v + 1
      [] OTHER -> v + 1

\* pipeline.go:110: result := fn(item); pipeline.go:52: the pass-through
\* goroutine sends the item itself
MapFn(kind, v) ==
    CASE kind = "double" -> v * 2
      [] kind = "inc" -> v + 1
      [] OTHER -> v

\* a Filter that lets every item through
PredicateAll(kind, v) == TRUE

\* pipeline.go:137: predicate(item)
Predicate(kind, v) == IF kind = "big" THEN v > 2 ELSE TRUE

\* The state after NewPipeline(ctx): no stage yet; a producer will send the
\* items of `input` on the channel given to Run.
PipeInit ==
    /\ ctxDone = FALSE
    /\ fnFail = {}
    /\ Idle("pipe")
    /\ \E L \in 0..MaxLen :
          pipe = [PipeOff EXCEPT !.pc = "new", !.src = Iota(L), !.input = Iota(L)]

\* a registration that puts the new stage in front of the others
RegisterFirst(stages, kind) == <<kind>> \o stages

\* pipeline.go:30: p.stages = append(p.stages, stage)
Register(stages, kind) == Append(stages, kind)

\* pipeline.go:29-32: AddStage; calls records the AddStage calls in the
\* order the caller made them
AddStage(kind) ==
    /\ pipe.pc = "new"
    /\ Len(pipe.stages) < MaxStages
    /\ pipe' = [pipe EXCEPT !.stages = Register(pipe.stages, kind),
                            !.calls = Append(pipe.calls, kind)]
    /\ UNCHANGED <<pipeOthers, ctxDone, fnFail>>

\* pipeline.go:36-58: with no stage Run starts one pass-through goroutine;
\* pipeline.go:61-65: otherwise goroutine j runs stage j on the output of j-1
Goroutines(stages) == IF Len(stages) = 0 THEN <<"copy">> ELSE stages

NStages == Len(Goroutines(pipe.stages))

\* pipeline.go:35-66: Run
PipeRun ==
    /\ pipe.pc = "new"
    /\ pipe' = [pipe EXCEPT !.pc = "running",
                            !.spc = [j \in 1..MaxStages |->
                                       IF j <= NStages THEN "recv" ELSE "none"]]
    /\ UNCHANGED <<pipeOthers, ctxDone, fnFail>>

\* pipeline.go:106-115, 133-143: what a stage does with a received item: a
\* Map sends fn(item), a Filter sends the item if the predicate holds
StageTake(p, j, v) ==
    LET kind == Goroutines(p.stages)[j]
    IN  IF IsMap(kind)
        THEN [p EXCEPT !.spc[j] = "send", !.held[j] = MapFn(kind, v)]
        ELSE IF Predicate(kind, v)
        THEN [p EXCEPT !.spc[j] = "send", !.held[j] = v]
        ELSE [p EXCEPT !.spc[j] = "recv"]

\* pipeline.go:45, 106, 133: the first goroutine receives from the input
StageRecvInput ==
    /\ pipe.pc = "running"
    /\ pipe.spc[1] = "recv"
    /\ pipe.input # <<>>
    /\ pipe' = StageTake([pipe EXCEPT !.input = Tail(pipe.input)], 1, Head(pipe.input))
    /\ UNCHANGED <<pipeOthers, ctxDone, fnFail>>

\* pipeline.go:114, 141 with 106, 133: goroutine j-1 sends on its output
\* and goroutine j receives it
StageRecv(j) ==
    /\ j > 1 /\ j <= NStages
    /\ pipe.spc[j] = "recv"
    /\ pipe.spc[j - 1] = "send"
    /\ pipe' = StageTake([pipe EXCEPT !.spc[j - 1] = "recv", !.held[j - 1] = 0],
                         j, pipe.held[j - 1])
    /\ UNCHANGED <<pipeOthers, ctxDone, fnFail>>

\* the channel goroutine j reads is closed and drained
UpstreamClosed(j) ==
    IF j = 1 THEN pipe.input = <<>> /\ pipe.inClosed
    ELSE pipe.spc[j - 1] = "exited"

\* pipeline.go:40, 46-48, 101, 107-109, 128, 134-136: input closed; return,
\* and the deferred close(output) runs
StageInputClosed(j) ==
    /\ j <= NStages
    /\ pipe.spc[j] = "recv"
    /\ UpstreamClosed(j)
    /\ pipe' = [pipe EXCEPT !.spc[j] = "exited", !.closes[j] = @ + 1]
    /\ UNCHANGED <<pipeOthers, ctxDone, fnFail>>

\* a stage whose send does not watch ctx.Done()
StageCancelPointsRecvOnly == {"recv"}

\* pipeline.go:43-44, 50-51, 104-105, 112-113, 131-132, 139-140: both
\* selects of a stage goroutine have a ctx.Done() case
StageCancelPoints == {"recv", "send"}

\* a select takes p.ctx.Done(); return, and the deferred close(output) runs
StageCancel(j) ==
    /\ j <= NStages
    /\ pipe.spc[j] \in StageCancelPoints
    /\ ctxDone
    /\ pipe' = [pipe EXCEPT !.spc[j] = "exited", !.closes[j] = @ + 1]
    /\ UNCHANGED <<pipeOthers, ctxDone, fnFail>>

\* the consumer receives from the channel Run returned
PipeConsume ==
    /\ pipe.pc = "running"
    /\ pipe.spc[NStages] = "send"
    /\ pipe' = [pipe EXCEPT !.spc[NStages] = "recv", !.held[NStages] = 0,
                            !.got = Append(pipe.got, pipe.held[NStages])]
    /\ UNCHANGED <<pipeOthers, ctxDone, fnFail>>

\* the producer closes the input after its last item was taken
PipeProducerClose ==
    /\ pipe.pc = "running"
    /\ pipe.input = <<>> /\ ~pipe.inClosed
    /\ pipe' = [pipe EXCEPT !.inClosed = TRUE]
    /\ UNCHANGED <<pipeOthers, ctxDone, fnFail>>

\* a cancel function that flips the state of the context
CancelFuncToggle(done) == ~done

\* pipeline.go:20, 70: the context.CancelFunc: the context is done after
\* the call, whatever it was before
CancelFunc(done) == TRUE

\* pipeline.go:69-71: Close cancels the pipeline's context
PipeClose ==
    /\ pipe.pc \in {"new", "running"}
    /\ pipe.closeCalls < MaxClose
    /\ pipe' = [pipe EXCEPT !.closeCalls = @ + 1]
    /\ ctxDone' = CancelFunc(ctxDone)
    /\ UNCHANGED <<pipeOthers, fnFail>>

\* pipeline.go:20: the pipeline's context is a child of the caller's, whose
\* cancellation cancels it too
PipeCancel == Cancel /\ pipe.pc \in {"new", "running"} /\ UNCHANGED <<pipeOthers, fnFail, pipe>>

PipeNext ==
    \/ \E kind \in StageKinds : AddStage(kind)
    \/ PipeRun
    \/ StageRecvInput
    \/ \E j \in 1..MaxStages : StageRecv(j)
    \/ \E j \in 1..MaxStages : StageInputClosed(j)
    \/ \E j \in 1..MaxStages : StageCancel(j)
    \/ PipeConsume
    \/ PipeProducerClose
    \/ PipeClose
    \/ PipeCancel


\* ----------------------------------------------------------------- Batch
\* pipeline.go:153-155: size <= 0 becomes 1
BatchSize(size) == IF size <= 0 THEN 1 ELSE size

\* The state after Batch(size)(ctx, input) returned: the goroutine is at its
\* loop head with an empty batch.
BatchInit ==
    /\ ctxDone = FALSE
    /\ fnFail = {}
    /\ Idle("batch")
    /\ \E sz \in -1..MaxBatch, L \in 0..MaxBatchLen :
          batch = [BatchOff EXCEPT !.pc = "recv", !.sizeArg = sz,
                                   !.size = BatchSize(sz),
                                   !.src = Iota(L), !.input = Iota(L)]

\* pipeline.go:178: if len(batch) >= size
IsFull(buf, size) == Len(buf) >= size

\* pipeline.go:165, 177-178: an item is received and appended to the batch
BatchRecv ==
    /\ batch.pc = "recv"
    /\ batch.input # <<>>
    /\ LET b == Append(batch.buf, Head(batch.input))
       IN  batch' = [batch EXCEPT !.input = Tail(batch.input), !.buf = b,
                                  !.pc = IF IsFull(b, batch.size) THEN "sendFull" ELSE "recv"]
    /\ UNCHANGED <<batchOthers, ctxDone, fnFail>>

\* pipeline.go:179-184: the copy of the full batch is taken by the consumer;
\* batch = batch[:0]
BatchSendFull ==
    /\ batch.pc = "sendFull"
    /\ batch' = [batch EXCEPT !.pc = "recv", !.buf = <<>>,
                              !.got = Append(batch.got, batch.buf)]
    /\ UNCHANGED <<batchOthers, ctxDone, fnFail>>

\* a stage that returns on a closed input without flushing
NeedsFlushNever(buf) == FALSE

\* pipeline.go:168: if len(batch) > 0
NeedsFlush(buf) == Len(buf) > 0

\* pipeline.go:166-175: the input is closed and drained: flush a non-empty
\* batch, else return (the deferred close(output) runs)
BatchInputClosed ==
    /\ batch.pc = "recv"
    /\ batch.input = <<>> /\ batch.inClosed
    /\ batch' = IF NeedsFlush(batch.buf)
                THEN [batch EXCEPT !.pc = "sendFinal"]
                ELSE [batch EXCEPT !.pc = "exited", !.closes = @ + 1]
    /\ UNCHANGED <<batchOthers, ctxDone, fnFail>>

\* pipeline.go:172-175: the final batch is taken by the consumer; return
BatchSendFinal ==
    /\ batch.pc = "sendFinal"
    /\ batch' = [batch EXCEPT !.pc = "exited", !.closes = @ + 1,
                              !.got = Append(batch.got, batch.buf)]
    /\ UNCHANGED <<batchOthers, ctxDone, fnFail>>

\* pipeline.go:163-164, 170-171, 180-181: a select takes ctx.Done(); return
BatchCancel ==
    /\ batch.pc \in {"recv", "sendFull", "sendFinal"}
    /\ ctxDone
    /\ batch' = [batch EXCEPT !.pc = "exited", !.closes = @ + 1]
    /\ UNCHANGED <<batchOthers, ctxDone, fnFail>>

\* the producer closes the input after its last item was taken
BatchProducerClose ==
    /\ batch.pc # "off"
    /\ batch.input = <<>> /\ ~batch.inClosed
    /\ batch' = [batch EXCEPT !.inClosed = TRUE]
    /\ UNCHANGED <<batchOthers, ctxDone, fnFail>>

BatchCtxCancel == Cancel /\ batch.pc # "exited" /\ UNCHANGED <<batchOthers, fnFail, batch>>

BatchNext ==
    \/ BatchRecv
    \/ BatchSendFull
    \/ BatchInputClosed
    \/ BatchSendFinal
    \/ BatchCancel
    \/ BatchProducerClose
    \/ BatchCtxCancel

\* ---------------------------------------------------------- FanIn, Merge
\* FanIn (fan.go:57-91) and Merge (pipeline.go:276-308) are the same code.
\* item number i of source k
Item(k, i) == [from |-> k, no |-> i]

\* a WaitGroup that counts one goroutine more than FanIn launches
FanInWgAddExtra(n) == n + 1

\* fan.go:62-63: wg.Add(1) once per input
FanInWgAdd(n) == n

\* The state after FanIn(ctx, inputs...) returned: one forwarding goroutine
\* per input (wg.Add(1) each) and the closer are running.
FanInInit ==
    /\ ctxDone = FALSE
    /\ fnFail = {}
    /\ Idle("fanin")
    /\ \E n \in 0..MaxN, per \in 0..MaxPer :
          fanin = [FanInOff EXCEPT
                      !.pc = "running", !.n = n, !.per = per,
                      !.input = [k \in 1..MaxN |->
                                   IF k <= n THEN [i \in 1..per |-> Item(k, i)] ELSE <<>>],
                      !.fpc = [k \in 1..MaxN |-> IF k <= n THEN "recv" ELSE "none"],
                      !.wg = FanInWgAdd(n), !.closer = "wait"]

\* fan.go:68-69, 75-76: a select takes ctx.Done(); return; wg.Done()
FwdCancel(k) ==
    /\ fanin.fpc[k] \in {"recv", "send"}
    /\ ctxDone
    /\ fanin' = [fanin EXCEPT !.fpc[k] = "exited", !.wg = @ - 1]
    /\ UNCHANGED <<faninOthers, ctxDone, fnFail>>

\* fan.go:70: item, ok := <-ch with ok
FwdRecv(k) ==
    /\ fanin.fpc[k] = "recv"
    /\ fanin.input[k] # <<>>
    /\ fanin' = [fanin EXCEPT !.fpc[k] = "send", !.held[k] = Head(fanin.input[k]),
                              !.input[k] = Tail(@)]
    /\ UNCHANGED <<faninOthers, ctxDone, fnFail>>

\* fan.go:70-73: the source is closed and drained; return; wg.Done()
FwdInputClosed(k) ==
    /\ fanin.fpc[k] = "recv"
    /\ fanin.input[k] = <<>> /\ fanin.inClosed[k]
    /\ fanin' = [fanin EXCEPT !.fpc[k] = "exited", !.wg = @ - 1]
    /\ UNCHANGED <<faninOthers, ctxDone, fnFail>>

\* an output on which the newest item overtakes the ones before it
FwdEmitFront(got, item) == <<item>> \o got

\* fan.go:77: the consumer receives the items in the order they are sent
FwdEmit(got, item) == Append(got, item)

\* fan.go:77: output <- item is taken by the consumer; on a closed channel
\* the send panics
FwdSend(k) ==
    /\ fanin.fpc[k] = "send"
    /\ IF fanin.closes > 0
       THEN fanin' = [fanin EXCEPT !.fpc[k] = "exited", !.panic = TRUE]
       ELSE fanin' = [fanin EXCEPT !.fpc[k] = "recv",
                                   !.got = FwdEmit(fanin.got, fanin.held[k])]
    /\ UNCHANGED <<faninOthers, ctxDone, fnFail>>

\* a closer that stops waiting while one forwarder is still running
FanInCloserReadyOffByOne(wg) == wg <= 1

\* fan.go:86: wg.Wait() returns when the counter is 0
FanInCloserReady(wg) == wg = 0

\* fan.go:85-88: wg.Wait(); close(output)
FanInCloser ==
    /\ fanin.closer = "wait"
    /\ FanInCloserReady(fanin.wg)
    /\ fanin' = [fanin EXCEPT !.closer = "exited", !.closes = @ + 1]
    /\ UNCHANGED <<faninOthers, ctxDone, fnFail>>

\* the producer of source k closes it after its last item was taken
SourceClose(k) ==
    /\ k <= fanin.n
    /\ fanin.input[k] = <<>> /\ ~fanin.inClosed[k]
    /\ fanin' = [fanin EXCEPT !.inClosed[k] = TRUE]
    /\ UNCHANGED <<faninOthers, ctxDone, fnFail>>

FanInCancel == Cancel /\ fanin.pc = "running" /\ fanin.closes = 0 /\ UNCHANGED <<faninOthers, fnFail, fanin>>

FanInNext ==
    \/ \E k \in 1..MaxN : FwdCancel(k)
    \/ \E k \in 1..MaxN : FwdRecv(k)
    \/ \E k \in 1..MaxN : FwdInputClosed(k)
    \/ \E k \in 1..MaxN : FwdSend(k)
    \/ FanInCloser
    \/ \E k \in 1..MaxN : SourceClose(k)
    \/ FanInCancel


\* ------------------------------------------------------------ RoundRobin
\* fan.go:132-134: workers <= 0 becomes 1
RRWorkers(n) == IF n <= 0 THEN 1 ELSE n

\* The state after RoundRobin(ctx, input, workers, fn) returned: per worker
\* a channel, a FanOut of one worker with its closer (fan.go:140-143) and a
\* FanIn forwarder; the distributor (fan.go:146-170) and the FanIn closer.
\* fn fails on no item or on the first one.
RRInitOf(counts) ==
    /\ ctxDone = FALSE
    /\ Idle("rr")
    /\ \E n \in counts, L \in 0..MaxLen :
          /\ fnFail \in {{}, {1} \cap (1..L)}
          /\ rr = [RROff EXCEPT
                      !.pc = "running", !.workersArg = n, !.workers = RRWorkers(n),
                      !.src = Iota(L), !.input = Iota(L), !.dpc = "recv",
                      !.wpc = [w \in 1..MaxN |-> IF w <= RRWorkers(n) THEN "select" ELSE "none"],
                      !.wCloser = [w \in 1..MaxN |-> IF w <= RRWorkers(n) THEN "wait" ELSE "none"],
                      !.fpc = [w \in 1..MaxN |-> IF w <= RRWorkers(n) THEN "recv" ELSE "none"],
                      !.wg = RRWorkers(n), !.closer = "wait"]

RRInit == RRInitOf(0..MaxN)

\* a distributor whose send does not watch ctx.Done()
DistCancelPointsRecvOnly == {"recv"}

\* fan.go:156-157, 163-164: both selects of the distributor have a
\* ctx.Done() case
DistCancelPoints == {"recv", "send"}

\* a select of the distributor takes ctx.Done()
DistCancel ==
    /\ rr.dpc \in DistCancelPoints
    /\ ctxDone
    /\ rr' = [rr EXCEPT !.dpc = "closing"]
    /\ UNCHANGED <<rrOthers, ctxDone, fnFail>>

\* fan.go:158: item, ok := <-input with ok
DistRecv ==
    /\ rr.dpc = "recv"
    /\ rr.input # <<>>
    /\ rr' = [rr EXCEPT !.dpc = "send", !.dItem = Head(rr.input), !.input = Tail(rr.input)]
    /\ UNCHANGED <<rrOthers, ctxDone, fnFail>>

\* fan.go:158-161: the input is closed and drained
DistInputClosed ==
    /\ rr.dpc = "recv"
    /\ rr.input = <<>> /\ rr.inClosed
    /\ rr' = [rr EXCEPT !.dpc = "closing"]
    /\ UNCHANGED <<rrOthers, ctxDone, fnFail>>

\* a distributor that never moves on to the next worker
NextIndexStuck(i, workers) == i

\* fan.go:166: workerIndex = (workerIndex + 1) % workers
NextIndex(i, workers) == (i + 1) % workers

\* fan.go:165-166 with fan.go:27: workerChannels[workerIndex] <- item is
\* taken by that channel's worker, which is at its select; the index moves
DistSend ==
    /\ rr.dpc = "send"
    /\ LET w == rr.workerIndex + 1
       IN  /\ rr.wpc[w] = "select"
           /\ rr' = [rr EXCEPT !.dpc = "recv", !.dItem = 0,
                               !.workerIndex = NextIndex(rr.workerIndex, rr.workers),
                               !.assigned[w] = Append(@, rr.dItem),
                               !.wpc[w] = "fn", !.wItem[w] = rr.dItem]
    /\ UNCHANGED <<rrOthers, ctxDone, fnFail>>

\* fan.go:147-151: the deferred loop closes the next worker channel, and
\* after the last one the distributor is gone
DistClose ==
    /\ rr.dpc = "closing"
    /\ rr' = [rr EXCEPT !.chCloses[rr.closeIdx] = @ + 1,
                        !.closeIdx = @ + 1,
                        !.dpc = IF rr.closeIdx = rr.workers THEN "exited" ELSE "closing"]
    /\ UNCHANGED <<rrOthers, ctxDone, fnFail>>

\* fan.go:25-26, 37-38: a select of worker w takes ctx.Done(); wg.Done()
RRWorkerCancel(w) ==
    /\ rr.wpc[w] \in {"select", "send"}
    /\ ctxDone
    /\ rr' = [rr EXCEPT !.wpc[w] = "exited"]
    /\ UNCHANGED <<rrOthers, ctxDone, fnFail>>

\* fan.go:27-30: the worker's channel is closed (nothing is buffered)
RRWorkerChClosed(w) ==
    /\ rr.wpc[w] = "select"
    /\ rr.chCloses[w] > 0
    /\ rr' = [rr EXCEPT !.wpc[w] = "exited"]
    /\ UNCHANGED <<rrOthers, ctxDone, fnFail>>

\* fan.go:31-35: fn returns; an error drops the item
RRWorkerFn(w) ==
    /\ rr.wpc[w] = "fn"
    /\ rr' = IF rr.wItem[w] \in fnFail
             THEN [rr EXCEPT !.wpc[w] = "select", !.wItem[w] = 0]
             ELSE [rr EXCEPT !.wpc[w] = "send", !.wItem[w] = FnVal(rr.wItem[w])]
    /\ UNCHANGED <<rrOthers, ctxDone, fnFail>>

\* fan.go:39 with fan.go:70: the worker's output <- result is taken by the
\* FanIn forwarder of that output; on a closed channel the send panics
RRWorkerSend(w) ==
    /\ rr.wpc[w] = "send"
    /\ IF rr.wOutCloses[w] > 0
       THEN rr' = [rr EXCEPT !.wpc[w] = "exited", !.panic = TRUE]
       ELSE /\ rr.fpc[w] = "recv"
            /\ rr' = [rr EXCEPT !.wpc[w] = "select", !.wItem[w] = 0,
                                !.fpc[w] = "send", !.fHeld[w] = rr.wItem[w]]
    /\ UNCHANGED <<rrOthers, ctxDone, fnFail>>

\* fan.go:47-50: the closer of worker w: wg.Wait(); close(output)
RRWorkerCloser(w) ==
    /\ rr.wCloser[w] = "wait"
    /\ rr.wpc[w] = "exited"
    /\ rr' = [rr EXCEPT !.wCloser[w] = "exited", !.wOutCloses[w] = @ + 1]
    /\ UNCHANGED <<rrOthers, ctxDone, fnFail>>

\* fan.go:68-69, 75-76: a select of forwarder w takes ctx.Done(); wg.Done()
RRFwdCancel(w) ==
    /\ rr.fpc[w] \in {"recv", "send"}
    /\ ctxDone
    /\ rr' = [rr EXCEPT !.fpc[w] = "exited", !.wg = @ - 1]
    /\ UNCHANGED <<rrOthers, ctxDone, fnFail>>

\* fan.go:70-73: the worker's output is closed; return; wg.Done()
RRFwdInputClosed(w) ==
    /\ rr.fpc[w] = "recv"
    /\ rr.wOutCloses[w] > 0
    /\ rr' = [rr EXCEPT !.fpc[w] = "exited", !.wg = @ - 1]
    /\ UNCHANGED <<rrOthers, ctxDone, fnFail>>

\* fan.go:77: output <- item is taken by the consumer
RRFwdSend(w) ==
    /\ rr.fpc[w] = "send"
    /\ IF rr.closes > 0
       THEN rr' = [rr EXCEPT !.fpc[w] = "exited", !.panic = TRUE]
       ELSE rr' = [rr EXCEPT !.fpc[w] = "recv", !.fHeld[w] = 0,
                             !.got[rr.fHeld[w]] = @ + 1]
    /\ UNCHANGED <<rrOthers, ctxDone, fnFail>>

\* fan.go:85-88: the FanIn closer: wg.Wait(); close(output)
RRCloser ==
    /\ rr.closer = "wait"
    /\ rr.wg = 0
    /\ rr' = [rr EXCEPT !.closer = "exited", !.closes = @ + 1]
    /\ UNCHANGED <<rrOthers, ctxDone, fnFail>>

\* the producer closes the input after its last item was taken
RRProducerClose ==
    /\ rr.pc = "running"
    /\ rr.input = <<>> /\ ~rr.inClosed
    /\ rr' = [rr EXCEPT !.inClosed = TRUE]
    /\ UNCHANGED <<rrOthers, ctxDone, fnFail>>

RRCancel == Cancel /\ rr.pc = "running" /\ rr.closes = 0 /\ UNCHANGED <<rrOthers, fnFail, rr>>

RRNext ==
    \/ DistCancel
    \/ DistRecv
    \/ DistInputClosed
    \/ DistSend
    \/ DistClose
    \/ \E w \in 1..MaxN : RRWorkerCancel(w)
    \/ \E w \in 1..MaxN : RRWorkerChClosed(w)
    \/ \E w \in 1..MaxN : RRWorkerFn(w)
    \/ \E w \in 1..MaxN : RRWorkerSend(w)
    \/ \E w \in 1..MaxN : RRWorkerCloser(w)
    \/ \E w \in 1..MaxN : RRFwdCancel(w)
    \/ \E w \in 1..MaxN : RRFwdInputClosed(w)
    \/ \E w \in 1..MaxN : RRFwdSend(w)
    \/ RRCloser
    \/ RRProducerClose
    \/ RRCancel

\* ----------------------------------------------------------- FanOutFanIn
\* fan.go:97, 100: the worker count is used as it is: a negative one makes
\* make([]<-chan R, workers) panic, zero starts no worker at all
FofiChains(n) == IF n < 0 THEN 0 ELSE n

\* The state after FanOutFanIn(ctx, input, workers, fn): per worker a
\* channel, a FanOut of one worker with its closer (fan.go:101-103), a
\* distributor (fan.go:106-123) and a FanIn forwarder; the FanIn closer
\* (fan.go:127).  With workers < 0 the call has panicked instead.
\* fn fails on no item or on the first one.
FofiInit ==
    /\ ctxDone = FALSE
    /\ Idle("fofi")
    /\ \E n \in (-1)..MaxFoN, L \in 0..MaxFoLen :
          /\ fnFail \in {{}, {1} \cap (1..L)}
          /\ fofi = IF n < 0
                    THEN [FofiOff EXCEPT !.pc = "panicked", !.workersArg = n,
                                         !.src = Iota(L), !.input = Iota(L),
                                         !.panic = TRUE]
                    ELSE [FofiOff EXCEPT
                            !.pc = "running", !.workersArg = n,
                            !.src = Iota(L), !.input = Iota(L),
                            !.dpc = [w \in 1..MaxFoN |-> IF w <= FofiChains(n) THEN "recv" ELSE "none"],
                            !.wpc = [w \in 1..MaxFoN |-> IF w <= FofiChains(n) THEN "select" ELSE "none"],
                            !.wCloser = [w \in 1..MaxFoN |-> IF w <= FofiChains(n) THEN "wait" ELSE "none"],
                            !.fpc = [w \in 1..MaxFoN |-> IF w <= FofiChains(n) THEN "recv" ELSE "none"],
                            !.wg = FofiChains(n), !.closer = "wait"]

\* fan.go:107, 110-111, 117-118: a select of distributor w takes
\* ctx.Done(); return, and the deferred close(ch) runs
FoDistCancel(w) ==
    /\ fofi.dpc[w] \in {"recv", "send"}
    /\ ctxDone
    /\ fofi' = [fofi EXCEPT !.dpc[w] = "exited", !.chCloses[w] = @ + 1]
    /\ UNCHANGED <<fofiOthers, ctxDone, fnFail>>

\* fan.go:112: item, ok := <-input with ok: the distributors compete for
\* the items of the shared input
FoDistRecv(w) ==
    /\ fofi.dpc[w] = "recv"
    /\ fofi.input # <<>>
    /\ fofi' = [fofi EXCEPT !.dpc[w] = "send", !.dItem[w] = Head(fofi.input),
                            !.input = Tail(fofi.input)]
    /\ UNCHANGED <<fofiOthers, ctxDone, fnFail>>

\* fan.go:107, 112-115: the input is closed and drained; return, and the
\* deferred close(ch) runs
FoDistInputClosed(w) ==
    /\ fofi.dpc[w] = "recv"
    /\ fofi.input = <<>> /\ fofi.inClosed
    /\ fofi' = [fofi EXCEPT !.dpc[w] = "exited", !.chCloses[w] = @ + 1]
    /\ UNCHANGED <<fofiOthers, ctxDone, fnFail>>

\* fan.go:119 with fan.go:27: ch <- item is taken by the worker of that
\* channel, which is at its select
FoDistSend(w) ==
    /\ fofi.dpc[w] = "send"
    /\ fofi.wpc[w] = "select"
    /\ fofi' = [fofi EXCEPT !.dpc[w] = "recv", !.dItem[w] = 0,
                            !.wpc[w] = "fn", !.wItem[w] = fofi.dItem[w]]
    /\ UNCHANGED <<fofiOthers, ctxDone, fnFail>>

\* fan.go:25-26, 37-38: a select of worker w takes ctx.Done(); wg.Done()
FoWorkerCancel(w) ==
    /\ fofi.wpc[w] \in {"select", "send"}
    /\ ctxDone
    /\ fofi' = [fofi EXCEPT !.wpc[w] = "exited"]
    /\ UNCHANGED <<fofiOthers, ctxDone, fnFail>>

\* fan.go:27-30: the worker's channel is closed (nothing is buffered)
FoWorkerChClosed(w) ==
    /\ fofi.wpc[w] = "select"
    /\ fofi.chCloses[w] > 0
    /\ fofi' = [fofi EXCEPT !.wpc[w] = "exited"]
    /\ UNCHANGED <<fofiOthers, ctxDone, fnFail>>

\* fan.go:31-35: fn returns; an error drops the item
FoWorkerFn(w) ==
    /\ fofi.wpc[w] = "fn"
    /\ fofi' = IF fofi.wItem[w] \in fnFail
               THEN [fofi EXCEPT !.wpc[w] = "select", !.wItem[w] = 0]
               ELSE [fofi EXCEPT !.wpc[w] = "send", !.wItem[w] = FnVal(fofi.wItem[w])]
    /\ UNCHANGED <<fofiOthers, ctxDone, fnFail>>

\* fan.go:39 with fan.go:70: the worker's output <- result is taken by the
\* FanIn forwarder of that output; on a closed channel the send panics
FoWorkerSend(w) ==
    /\ fofi.wpc[w] = "send"
    /\ IF fofi.wOutCloses[w] > 0
       THEN fofi' = [fofi EXCEPT !.wpc[w] = "exited", !.panic = TRUE]
       ELSE /\ fofi.fpc[w] = "recv"
            /\ fofi' = [fofi EXCEPT !.wpc[w] = "select", !.wItem[w] = 0,
                                    !.fpc[w] = "send", !.fHeld[w] = fofi.wItem[w]]
    /\ UNCHANGED <<fofiOthers, ctxDone, fnFail>>

\* fan.go:47-50: the closer of worker w: wg.Wait(); close(output)
FoWorkerCloser(w) ==
    /\ fofi.wCloser[w] = "wait"
    /\ fofi.wpc[w] = "exited"
    /\ fofi' = [fofi EXCEPT !.wCloser[w] = "exited", !.wOutCloses[w] = @ + 1]
    /\ UNCHANGED <<fofiOthers, ctxDone, fnFail>>

\* fan.go:68-69, 75-76: a select of forwarder w takes ctx.Done(); wg.Done()
FoFwdCancel(w) ==
    /\ fofi.fpc[w] \in {"recv", "send"}
    /\ ctxDone
    /\ fofi' = [fofi EXCEPT !.fpc[w] = "exited", !.wg = @ - 1]
    /\ UNCHANGED <<fofiOthers, ctxDone, fnFail>>

\* fan.go:70-73: the worker's output is closed; return; wg.Done()
FoFwdInputClosed(w) ==
    /\ fofi.fpc[w] = "recv"
    /\ fofi.wOutCloses[w] > 0
    /\ fofi' = [fofi EXCEPT !.fpc[w] = "exited", !.wg = @ - 1]
    /\ UNCHANGED <<fofiOthers, ctxDone, fnFail>>

\* a forwarder that sends every item twice
FoEmitTwice(n) == n + 2

\* fan.go:77: output <- item: one emission of the item
FoEmit(n) == n + 1

\* fan.go:77: output <- item is taken by the consumer; on a closed channel
\* the send panics
FoFwdSend(w) ==
    /\ fofi.fpc[w] = "send"
    /\ IF fofi.closes > 0
       THEN fofi' = [fofi EXCEPT !.fpc[w] = "exited", !.panic = TRUE]
       ELSE fofi' = [fofi EXCEPT !.fpc[w] = "recv", !.fHeld[w] = 0,
                                 !.got[fofi.fHeld[w]] = FoEmit(@)]
    /\ UNCHANGED <<fofiOthers, ctxDone, fnFail>>

\* fan.go:85-88: the FanIn closer: wg.Wait(); close(output)
FoCloser ==
    /\ fofi.closer = "wait"
    /\ fofi.wg = 0
    /\ fofi' = [fofi EXCEPT !.closer = "exited", !.closes = @ + 1]
    /\ UNCHANGED <<fofiOthers, ctxDone, fnFail>>

\* the producer closes the input after its last item was taken
FoProducerClose ==
    /\ fofi.pc = "running"
    /\ fofi.input = <<>> /\ ~fofi.inClosed
    /\ fofi' = [fofi EXCEPT !.inClosed = TRUE]
    /\ UNCHANGED <<fofiOthers, ctxDone, fnFail>>

FoCancel ==
    /\ Cancel
    /\ fofi.pc = "running" /\ fofi.closes = 0
    /\ UNCHANGED <<fofiOthers, fnFail, fofi>>

\* the steps of a call whose context is never cancelled
FofiRunNext ==
    \/ \E w \in 1..MaxFoN : FoDistRecv(w)
    \/ \E w \in 1..MaxFoN : FoDistInputClosed(w)
    \/ \E w \in 1..MaxFoN : FoDistSend(w)
    \/ \E w \in 1..MaxFoN : FoWorkerChClosed(w)
    \/ \E w \in 1..MaxFoN : FoWorkerFn(w)
    \/ \E w \in 1..MaxFoN : FoWorkerSend(w)
    \/ \E w \in 1..MaxFoN : FoWorkerCloser(w)
    \/ \E w \in 1..MaxFoN : FoFwdInputClosed(w)
    \/ \E w \in 1..MaxFoN : FoFwdSend(w)
    \/ FoCloser
    \/ FoProducerClose

\* the cancellation and the steps it enables
FofiCancelNext ==
    \/ FoCancel
    \/ \E w \in 1..MaxFoN : FoDistCancel(w)
    \/ \E w \in 1..MaxFoN : FoWorkerCancel(w)
    \/ \E w \in 1..MaxFoN : FoFwdCancel(w)

FofiNext == FofiRunNext \/ FofiCancelNext


\* --------------------------------------------------------------- Unbatch
\* the number of items in the first j groups of the given sizes
RECURSIVE SumTo(_, _)
SumTo(sizes, j) == IF j = 0 THEN 0 ELSE sizes[j] + SumTo(sizes, j - 1)

\* the groups the producer sends: slices of the given sizes holding the
\* items 1, 2, 3, ... in order, as in TestUnbatch
Groups(sizes) ==
    [j \in 1..Len(sizes) |-> [i \in 1..sizes[j] |-> SumTo(sizes, j - 1) + i]]

\* The state after Unbatch()(ctx, input) returned: the stage goroutine is
\* at its loop head; a producer will send the groups of `input`.
UnbatchInit ==
    /\ ctxDone = FALSE
    /\ fnFail = {}
    /\ Idle("unbatch")
    /\ \E G \in 0..MaxGroups : \E sizes \in [1..G -> 0..MaxGroup] :
          unbatch = [UnbatchOff EXCEPT !.pc = "recv", !.src = Groups(sizes),
                                       !.input = Groups(sizes)]

\* pipeline.go:198, 201-202: the loop-head select takes ctx.Done(); return,
\* and the deferred close(output) runs
UnbatchCancelRecv ==
    /\ unbatch.pc = "recv"
    /\ ctxDone
    /\ unbatch' = [unbatch EXCEPT !.pc = "exited", !.closes = @ + 1]
    /\ UNCHANGED <<unbatchOthers, ctxDone, fnFail>>

\* a range that steps over every other item
RangeNextSkip(i) == i + 2

\* pipeline.go:207: for _, item := range batch goes on to the next index
RangeNext(i) == i + 1

\* pipeline.go:207: the range over batch has an item left at index i
InRange(group, i) == i <= Len(group)

\* pipeline.go:203-207: a group is received and the range over it begins;
\* the range over an empty group ends at once, back to the loop head
UnbatchRecv ==
    /\ unbatch.pc = "recv"
    /\ unbatch.input # <<>>
    /\ unbatch' = [unbatch EXCEPT
                      !.pc = IF InRange(Head(unbatch.input), 1)
                             THEN "send" ELSE "recv",
                      !.batch = IF InRange(Head(unbatch.input), 1)
                                THEN Head(unbatch.input) ELSE <<>>,
                      !.idx = 1,
                      !.input = Tail(unbatch.input)]
    /\ UNCHANGED <<unbatchOthers, ctxDone, fnFail>>

\* pipeline.go:198, 203-206: the input is closed and drained; return, and
\* the deferred close(output) runs
UnbatchInputClosed ==
    /\ unbatch.pc = "recv"
    /\ unbatch.input = <<>> /\ unbatch.inClosed
    /\ unbatch' = [unbatch EXCEPT !.pc = "exited", !.closes = @ + 1]
    /\ UNCHANGED <<unbatchOthers, ctxDone, fnFail>>

\* pipeline.go:207-212: output <- item is taken by the consumer; the range
\* goes on, and after the last item of the group back to the loop head
UnbatchSend ==
    /\ unbatch.pc = "send"
    /\ unbatch' = [unbatch EXCEPT
                      !.got = Append(@, unbatch.batch[unbatch.idx]),
                      !.pc = IF InRange(unbatch.batch, RangeNext(unbatch.idx))
                             THEN "send" ELSE "recv",
                      !.batch = IF InRange(unbatch.batch, RangeNext(unbatch.idx))
                                THEN @ ELSE <<>>,
                      !.idx = IF InRange(unbatch.batch, RangeNext(unbatch.idx))
                              THEN RangeNext(unbatch.idx) ELSE 1]
    /\ UNCHANGED <<unbatchOthers, ctxDone, fnFail>>

\* pipeline.go:198, 209-210: the send select takes ctx.Done(); return, with
\* the rest of the group not sent, and the deferred close(output) runs
UnbatchCancelSend ==
    /\ unbatch.pc = "send"
    /\ ctxDone
    /\ unbatch' = [unbatch EXCEPT !.pc = "exited", !.closes = @ + 1]
    /\ UNCHANGED <<unbatchOthers, ctxDone, fnFail>>

\* the producer closes the input after its last group was taken
UnbatchProducerClose ==
    /\ unbatch.pc # "off"
    /\ unbatch.input = <<>> /\ ~unbatch.inClosed
    /\ unbatch' = [unbatch EXCEPT !.inClosed = TRUE]
    /\ UNCHANGED <<unbatchOthers, ctxDone, fnFail>>

UnbatchCancel ==
    /\ Cancel
    /\ unbatch.pc \in {"recv", "send"}
    /\ UNCHANGED <<unbatchOthers, fnFail, unbatch>>

UnbatchNext ==
    \/ UnbatchCancelRecv
    \/ UnbatchRecv
    \/ UnbatchInputClosed
    \/ UnbatchSend
    \/ UnbatchCancelSend
    \/ UnbatchProducerClose
    \/ UnbatchCancel


\* -------------------------------------------------------- CircuitBreaker
\* The state after NewCircuitBreaker(failureThreshold, resetTimeout)
\* (retry.go:181-187): closed, no failure counted; up to MaxCallers
\* goroutines will call Execute on it.
CbInit ==
    /\ ctxDone = FALSE
    /\ fnFail = {}
    /\ Idle("cb")
    /\ \E th \in 1..MaxThreshold, to \in 0..MaxTimeout :
          cb = [CbOff EXCEPT !.pc = "on", !.failureThreshold = th,
                             !.resetTimeout = to, !.state = StateClosed]

\* the callers that are inside fn
CbInFn == {c \in 1..MaxCallers : cb.cpc[c] = "fn"}

\* a caller may begin one more call of Execute
CbMayCall(c) ==
    /\ cb.pc = "on"
    /\ cb.cpc[c] = "idle"
    /\ Len(cb.log) + Cardinality(CbInFn) < MaxCalls

\* retry.go:192-196: the context is done; Execute returns ctx.Err()
CbExecuteCancelled(c) ==
    /\ CbMayCall(c)
    /\ ctxDone
    /\ cb' = [cb EXCEPT !.log = Append(@, "ctx")]
    /\ UNCHANGED <<cbOthers, ctxDone, fnFail>>

\* retry.go:201: time.Since(cb.lastFailureTime) >= cb.resetTimeout
ResetElapsed(since, timeout) == since >= timeout

\* the breaker lets a call through to fn: closed, half-open, or open with
\* resetTimeout elapsed (retry.go:199-209)
CbLetsThrough ==
    \/ cb.state # StateOpen
    \/ ResetElapsed(cb.now - cb.lastFailureTime, cb.resetTimeout)

\* the state the first critical section leaves (retry.go:199-209): an
\* open breaker whose resetTimeout has elapsed becomes half-open
CbStateAfterCheck ==
    IF cb.state = StateOpen THEN StateHalfOpen ELSE cb.state

\* retry.go:198-211, 214: the first critical section lets the call through
\* and fn is invoked, outside the lock
CbExecuteAdmitted(c) ==
    /\ CbMayCall(c)
    /\ ~ctxDone
    /\ CbLetsThrough
    /\ cb' = [cb EXCEPT !.state = CbStateAfterCheck,
                        !.cpc[c] = "fn",
                        !.trial[c] = (CbStateAfterCheck = StateHalfOpen)]
    /\ UNCHANGED <<cbOthers, ctxDone, fnFail>>

\* retry.go:200-206: the breaker is open and resetTimeout has not elapsed;
\* Execute returns the error "circuit breaker is open"
CbExecuteRejected(c) ==
    /\ CbMayCall(c)
    /\ ~ctxDone
    /\ ~CbLetsThrough
    /\ cb' = [cb EXCEPT !.log = Append(@, "open")]
    /\ UNCHANGED <<cbOthers, ctxDone, fnFail>>

\* a breaker that opens one failure late
ThresholdReachedLate(count, threshold) == count > threshold

\* retry.go:223: cb.failureCount >= cb.failureThreshold
ThresholdReached(count, threshold) == count >= threshold

\* retry.go:214-226: fn returns an error; in the second critical section
\* the failure is counted and timed and the breaker opened at the threshold
CbFnFailed(c) ==
    /\ cb.cpc[c] = "fn"
    /\ cb' = [cb EXCEPT
                 !.failureCount = @ + 1,
                 !.lastFailureTime = cb.now,
                 !.state = IF ThresholdReached(cb.failureCount + 1, cb.failureThreshold)
                           THEN StateOpen ELSE @,
                 !.cpc[c] = "idle", !.trial[c] = FALSE,
                 !.log = Append(@, "fail")]
    /\ UNCHANGED <<cbOthers, ctxDone, fnFail>>

\* retry.go:214-221, 228-232: fn returns nil; in the second critical
\* section the count is reset and the breaker closed
CbFnSucceeded(c) ==
    /\ cb.cpc[c] = "fn"
    /\ cb' = [cb EXCEPT
                 !.failureCount = 0,
                 !.state = StateClosed,
                 !.cpc[c] = "idle", !.trial[c] = FALSE,
                 !.log = Append(@, "ok")]
    /\ UNCHANGED <<cbOthers, ctxDone, fnFail>>

\* time passes
CbTick ==
    /\ cb.pc = "on"
    /\ cb.now < MaxTime
    /\ cb' = [cb EXCEPT !.now = @ + 1]
    /\ UNCHANGED <<cbOthers, ctxDone, fnFail>>

CbCancel ==
    /\ Cancel
    /\ cb.pc = "on"
    /\ UNCHANGED <<cbOthers, fnFail, cb>>

CbNext ==
    \/ \E c \in 1..MaxCallers : CbExecuteCancelled(c)
    \/ \E c \in 1..MaxCallers : CbExecuteAdmitted(c)
    \/ \E c \in 1..MaxCallers : CbExecuteRejected(c)
    \/ \E c \in 1..MaxCallers : CbFnFailed(c)
    \/ \E c \in 1..MaxCallers : CbFnSucceeded(c)
    \/ CbTick
    \/ CbCancel


\* ------------------------------------------------------------------ Retry
\* The state on entry to Retry(ctx, item, fn, config) (retry.go:35-38):
\* attempt = 0, lastErr = nil, at the head of the loop.
RetryInit ==
    /\ ctxDone = FALSE
    /\ fnFail = {}
    /\ Idle("retry")
    /\ \E m \in (-1)..MaxRetries :
          retry = [RetryOff EXCEPT !.pc = "loop", !.maxRetries = m]

\* retry.go:38: attempt <= config.MaxRetries
LoopGoesOn(attempt, maxRetries) == attempt <= maxRetries

\* retry.go:38, 73: the loop condition fails; return lastErr
RetryLoopExit ==
    /\ retry.pc = "loop"
    /\ ~LoopGoesOn(retry.attempt, retry.maxRetries)
    /\ retry' = [retry EXCEPT !.pc = "returned", !.ret = retry.lastErr]
    /\ UNCHANGED <<retryOthers, ctxDone, fnFail>>

\* retry.go:39-42: the context is done before the attempt; return ctx.Err()
RetryCtxDone ==
    /\ retry.pc = "loop"
    /\ LoopGoesOn(retry.attempt, retry.maxRetries)
    /\ ctxDone
    /\ retry' = [retry EXCEPT !.pc = "returned", !.ret = RetryCtxErr]
    /\ UNCHANGED <<retryOthers, ctxDone, fnFail>>

\* retry.go:43-45: the default case; fn(ctx, item) is invoked
RetryInvoke ==
    /\ retry.pc = "loop"
    /\ LoopGoesOn(retry.attempt, retry.maxRetries)
    /\ ~ctxDone
    /\ retry' = [retry EXCEPT !.pc = "fn"]
    /\ UNCHANGED <<retryOthers, ctxDone, fnFail>>

\* an IsRetryable that retries every error
IsRetryableAlways(e) == TRUE

\* retry.go:126-132: the Retryable flag of a RetryableError, true for any
\* other error
IsRetryable(e) == IF e.kind = "retryable" THEN e.flag ELSE TRUE

\* a Retry that treats a nil result as one more retryable failure
RetryVerdictNilRetried(e, attempt, maxRetries) ==
    IF ~IsRetryable(e) THEN "return err"
    ELSE IF attempt = maxRetries THEN "break"
    ELSE "delay"

\* retry.go:46-59: what Retry does with the result of an attempt: return
\* nil, return the error, leave the loop, or go on to the delay
RetryVerdict(e, attempt, maxRetries) ==
    IF e.kind = "nil" THEN "return nil"
    ELSE IF ~IsRetryable(e) THEN "return err"
    ELSE IF attempt = maxRetries THEN "break"
    ELSE "delay"

\* what fn can return at its n-th invocation: nil, an error that holds no
\* RetryableError, a RetryableError with either flag
FnResults(n) ==
    {RetryNil, RetryErr("plain", FALSE, n),
     RetryErr("retryable", TRUE, n), RetryErr("retryable", FALSE, n)}

\* retry.go:45-59, 73: fn returns e
RetryFnReturns(e) ==
    /\ retry.pc = "fn"
    /\ e \in FnResults(Len(retry.outcomes) + 1)
    /\ LET verdict == RetryVerdict(e, retry.attempt, retry.maxRetries) IN
       retry' = [retry EXCEPT
                   !.outcomes = Append(@, e),
                   !.lastErr = IF verdict = "return nil" THEN @ ELSE e,
                   !.pc = IF verdict = "delay" THEN "delay" ELSE "returned",
                   !.ret = IF verdict = "return nil" THEN RetryNil
                           ELSE IF verdict = "delay" THEN @
                           ELSE e]
    /\ UNCHANGED <<retryOthers, ctxDone, fnFail>>

\* retry.go:62-69, 38: the delay elapses; attempt++
RetryDelayElapsed ==
    /\ retry.pc = "delay"
    /\ retry' = [retry EXCEPT !.pc = "loop", !.attempt = @ + 1, !.delays = @ + 1]
    /\ UNCHANGED <<retryOthers, ctxDone, fnFail>>

\* retry.go:64-66: the context is done during the delay; return ctx.Err()
RetryDelayCancelled ==
    /\ retry.pc = "delay"
    /\ ctxDone
    /\ retry' = [retry EXCEPT !.pc = "returned", !.ret = RetryCtxErr]
    /\ UNCHANGED <<retryOthers, ctxDone, fnFail>>

RetryCancel ==
    /\ Cancel
    /\ retry.pc \in {"loop", "fn", "delay"}
    /\ UNCHANGED <<retryOthers, fnFail, retry>>

RetryNext ==
    \/ RetryLoopExit
    \/ RetryCtxDone
    \/ RetryInvoke
    \/ \E n \in 1..(MaxRetries + 1) : \E e \in FnResults(n) : RetryFnReturns(e)
    \/ RetryDelayElapsed
    \/ RetryDelayCancelled
    \/ RetryCancel


\* ------------------------------------- RateLimiter, BurstRateLimit, RateLimit
\* rate.go:21-23, 160-162: limit <= 0 becomes 1
NewLimit(limit) == IF limit <= 0 THEN 1 ELSE limit

\* rate.go:24-26, 163-165: interval <= 0 becomes time.Second
NewInterval(interval) == IF interval <= 0 THEN Second ELSE interval

\* a burst that is not capped at twice the limit
NewBurstUncapped(limit, burst) == IF burst <= 0 THEN limit ELSE burst

\* rate.go:166-171: burst <= 0 becomes limit; burst > limit*2 becomes limit*2
NewBurst(limit, burst) ==
    LET b == IF burst <= 0 THEN limit ELSE burst
    IN  IF b > limit * 2 THEN limit * 2 ELSE b

\* rate.go:31, 177: cap(tokens)
Capacity(r) == IF r.kind = "rate" THEN r.limit ELSE r.burst

\* The state after NewRateLimiter(limit, interval) (rate.go:20-41) or
\* NewBurstRateLimit(limit, interval, burst) (rate.go:159-187): the bucket
\* is full, lastRefill is now. Callers will use Allow, Refill and Wait.
LimiterInit ==
    /\ ctxDone = FALSE
    /\ fnFail = {}
    /\ Idle("rl")
    /\ \E kind \in {"rate", "burst"}, l \in 0..MaxLimit, i \in 0..MaxInterval,
          b \in 0..MaxBurst :
          /\ kind = "rate" => b = 0
          /\ rl = [RlOff EXCEPT
                     !.pc = "limiter", !.kind = kind,
                     !.limitArg = l, !.burstArg = b,
                     !.limit = NewLimit(l),
                     !.burst = IF kind = "rate" THEN NewLimit(l)
                               ELSE NewBurst(NewLimit(l), b),
                     !.interval = NewInterval(i),
                     !.tokens = IF kind = "rate" THEN NewLimit(l)
                                ELSE NewBurst(NewLimit(l), b),
                     !.mpc = "idle"]

\* The state after RateLimit(ctx, input, limit, interval) returned and its
\* two goroutines were launched (rate.go:100-146): the main goroutine at
\* its select, the refill goroutine at its own. interval is positive
\* (time.NewTicker panics otherwise).
RateLimitInit ==
    /\ ctxDone = FALSE
    /\ fnFail = {}
    /\ Idle("rl")
    /\ \E l \in 0..MaxLimit, i \in 1..MaxInterval, L \in 0..MaxLen :
          rl = [RlOff EXCEPT
                  !.pc = "stage", !.kind = "rate", !.limitArg = l,
                  !.limit = NewLimit(l), !.burst = NewLimit(l),
                  !.interval = NewInterval(i), !.tokens = NewLimit(l),
                  !.src = Iota(L), !.input = Iota(L),
                  !.mpc = "recv", !.tpc = "select"]

\* an Allow that takes a token the bucket does not hold
AllowTakesAlways(tokens) == TRUE

\* rate.go:46-51, 191-196: case <-rl.tokens is ready
AllowTakes(tokens) == tokens > 0

\* rate.go:45-52, 190-197: Allow
Allow ==
    /\ rl.pc = "limiter"
    /\ Len(rl.allowed) < MaxAllow
    /\ rl' = [rl EXCEPT
                !.tokens = IF AllowTakes(rl.tokens) THEN @ - 1 ELSE @,
                !.allowed = Append(@, AllowTakes(rl.tokens))]
    /\ UNCHANGED <<rlOthers, ctxDone, fnFail>>

\* the clock is read up to two intervals past lastRefill: from there on
\* tokensToAdd is the same
ClockCap == 2 * rl.interval

\* time passes
RlTick ==
    /\ rl.pc # "off"
    /\ rl.elapsed < ClockCap \/ (rl.rfBy # "none" /\ rl.rfSince < ClockCap)
    /\ rl' = [rl EXCEPT
                !.elapsed = IF @ < ClockCap THEN @ + 1 ELSE @,
                !.rfSince = IF rl.rfBy # "none" /\ @ < ClockCap THEN @ + 1 ELSE @]
    /\ UNCHANGED <<rlOthers, ctxDone, fnFail>>

\* rate.go:80-83, 219-222: int(elapsed/interval) * limit, at most limit
\* (RateLimiter) or burst (BurstRateLimit)
TokensToAdd(r) ==
    LET n == (r.elapsed \div r.interval) * r.limit
        most == IF r.kind = "rate" THEN r.limit ELSE r.burst
    IN  IF n > most THEN most ELSE n

\* the callers of Refill: a user of the limiter, Wait (rate.go:60), the
\* refill goroutine of RateLimit (rate.go:117)
RefillCalledBy(who) ==
    CASE who = "user" -> rl.pc = "limiter"
      [] who = "wait" -> rl.mpc = "refill"
      [] who = "ticker" -> rl.tpc = "refill"

\* Refill returns to its caller
RefillReturns(r, who) ==
    CASE who = "user" -> r
      [] who = "wait" -> [r EXCEPT !.mpc = "take"]
      [] who = "ticker" -> [r EXCEPT !.tpc = "select"]

\* rate.go:72-83, 211-222: Refill takes mu and reads the clock; with less
\* than an interval elapsed it returns, otherwise it enters the loop
RefillBegin(who) ==
    /\ RefillCalledBy(who)
    /\ rl.rfBy = "none"
    /\ IF rl.elapsed >= rl.interval
       THEN rl' = [rl EXCEPT !.rfBy = who, !.rfLeft = TokensToAdd(rl),
                             !.rfSince = 0, !.refilled = TRUE]
       ELSE rl' = RefillReturns([rl EXCEPT !.refilled = TRUE], who)
    /\ UNCHANGED <<rlOthers, ctxDone, fnFail>>

\* a send that adds the token to a full bucket
TrySendTokenOver(tokens, capacity) == tokens + 1

\* rate.go:87-92, 226-231: the non-blocking send of one token; on a full
\* bucket the default case is taken (its break leaves the select only)
TrySendToken(tokens, capacity) ==
    IF tokens < capacity THEN tokens + 1 ELSE tokens

\* rate.go:86-93, 225-232: one iteration of the loop
RefillAdd ==
    /\ rl.rfBy # "none"
    /\ rl.rfLeft > 0
    /\ rl' = [rl EXCEPT !.tokens = TrySendToken(@, Capacity(rl)),
                        !.rfLeft = @ - 1]
    /\ UNCHANGED <<rlOthers, ctxDone, fnFail>>

\* rate.go:95, 234 and the deferred Unlock: lastRefill = now, the clock
\* value read at the beginning
RefillEnd ==
    /\ rl.rfBy # "none"
    /\ rl.rfLeft = 0
    /\ rl' = RefillReturns([rl EXCEPT !.rfBy = "none", !.elapsed = rl.rfSince,
                                      !.rfSince = 0], rl.rfBy)
    /\ UNCHANGED <<rlOthers, ctxDone, fnFail>>

\* rate.go:58-60, 200-201: a caller enters Wait; RateLimiter.Wait calls
\* Refill first, BurstRateLimit.Wait does not
WaitBegin ==
    /\ rl.pc = "limiter"
    /\ rl.mpc = "idle"
    /\ Len(rl.waits) < MaxWaits
    /\ rl' = [rl EXCEPT !.mpc = IF rl.kind = "rate" THEN "refill" ELSE "take"]
    /\ UNCHANGED <<rlOthers, ctxDone, fnFail>>

\* Wait returns r to its caller: RateLimit's main goroutine goes on to the
\* send (nil) or returns (an error, rate.go:132-134)
WaitReturns(r) ==
    IF rl.pc = "stage"
    THEN IF r = "nil" THEN [rl EXCEPT !.mpc = "send"]
         ELSE [rl EXCEPT !.mpc = "exited", !.closes = @ + 1]
    ELSE [rl EXCEPT !.mpc = "idle", !.waits = Append(@, r)]

\* rate.go:65-66, 204-205: case <-rl.tokens
WaitTake ==
    /\ rl.mpc = "take"
    /\ rl.tokens > 0
    /\ rl' = [WaitReturns("nil") EXCEPT !.tokens = @ - 1]
    /\ UNCHANGED <<rlOthers, ctxDone, fnFail>>

\* rate.go:63-64, 202-203: case <-ctx.Done()
WaitCancelled ==
    /\ rl.mpc = "take"
    /\ ctxDone
    /\ rl' = WaitReturns("ctx")
    /\ UNCHANGED <<rlOthers, ctxDone, fnFail>>

\* rate.go:126-132: the main goroutine receives an item and calls Wait
RlRecv ==
    /\ rl.pc = "stage"
    /\ rl.mpc = "recv"
    /\ rl.input # <<>>
    /\ rl' = [rl EXCEPT !.mpc = "refill", !.held = Head(rl.input),
                        !.input = Tail(rl.input)]
    /\ UNCHANGED <<rlOthers, ctxDone, fnFail>>

\* rate.go:126-129, 105: the input is closed; return, close(output)
RlInputClosed ==
    /\ rl.pc = "stage"
    /\ rl.mpc = "recv"
    /\ rl.input = <<>> /\ rl.inClosed
    /\ rl' = [rl EXCEPT !.mpc = "exited", !.closes = @ + 1]
    /\ UNCHANGED <<rlOthers, ctxDone, fnFail>>

\* rate.go:139: output <- item is taken by the consumer
RlSend ==
    /\ rl.pc = "stage"
    /\ rl.mpc = "send"
    /\ rl' = [rl EXCEPT !.mpc = "recv", !.held = 0, !.got = Append(@, rl.held)]
    /\ UNCHANGED <<rlOthers, ctxDone, fnFail>>

\* rate.go:124-125, 137-138, 105: a select of the main goroutine takes
\* ctx.Done(); return, close(output)
RlMainCancel ==
    /\ rl.pc = "stage"
    /\ rl.mpc \in {"recv", "send"}
    /\ ctxDone
    /\ rl' = [rl EXCEPT !.mpc = "exited", !.closes = @ + 1]
    /\ UNCHANGED <<rlOthers, ctxDone, fnFail>>

\* a refill goroutine that also returns once the main goroutine is gone
TickerStopsOn(done, mainExited) == done \/ mainExited

\* rate.go:112-116: the refill goroutine returns on ctx.Done(), and on
\* nothing else
TickerStops(done, mainExited) == done

\* rate.go:114-115: the refill goroutine returns
TickerExit ==
    /\ rl.tpc = "select"
    /\ TickerStops(ctxDone, rl.mpc = "exited")
    /\ rl' = [rl EXCEPT !.tpc = "exited"]
    /\ UNCHANGED <<rlOthers, ctxDone, fnFail>>

\* rate.go:116-117: the ticker fires; limiter.Refill() is called
TickerFire ==
    /\ rl.tpc = "select"
    /\ rl' = [rl EXCEPT !.tpc = "refill"]
    /\ UNCHANGED <<rlOthers, ctxDone, fnFail>>

\* the producer closes the input after its last item was taken
RlProducerClose ==
    /\ rl.pc = "stage"
    /\ rl.input = <<>> /\ ~rl.inClosed
    /\ rl' = [rl EXCEPT !.inClosed = TRUE]
    /\ UNCHANGED <<rlOthers, ctxDone, fnFail>>

RlCancel ==
    /\ Cancel
    /\ rl.pc # "off"
    /\ UNCHANGED <<rlOthers, fnFail, rl>>

\* the steps of Refill, whoever called it
RefillStep ==
    \/ \E who \in {"user", "wait", "ticker"} : RefillBegin(who)
    \/ RefillAdd
    \/ RefillEnd

LimiterNext ==
    \/ Allow
    \/ RlTick
    \/ RefillStep
    \/ WaitBegin
    \/ WaitTake
    \/ WaitCancelled
    \/ RlCancel

\* the steps of RateLimit's main goroutine, its consumer taking part
RlMainStep ==
    \/ RlRecv
    \/ RlInputClosed
    \/ RlSend
    \/ WaitTake

\* ... and its returns on cancellation
RlMainGoes == RlMainStep \/ RlMainCancel \/ WaitCancelled

RlTickerStep == TickerFire \/ TickerExit

RateLimitNext ==
    \/ RlMainStep
    \/ RlTickerStep
    \/ RefillStep
    \/ RlTick
    \/ RlProducerClose
    \/ WaitCancelled
    \/ RlMainCancel
    \/ RlCancel


vars == <<ctxDone, fnFail, mcVars, pool, tee, pipe, batch, fanin, rr, fofi,
          unbatch, cb, retry, rl>>

MapSpec == McInit /\ [][McNext]_vars

PoolSpec == PoolInit /\ [][PoolNext]_vars

TeeSpec == TeeInit /\ [][TeeNext]_vars

UnbatchSpec == UnbatchInit /\ [][UnbatchNext]_vars

CbSpec == CbInit /\ [][CbNext]_vars

RetrySpec == RetryInit /\ [][RetryNext]_vars

LimiterSpec == LimiterInit /\ [][LimiterNext]_vars

RateLimitSpec == RateLimitInit /\ [][RateLimitNext]_vars

\* RateLimit where time passes, each goroutine goes on while it can, a
\* goroutine waiting for mu gets it in the end (sync.Mutex does not starve
\* a waiter), the producer closes the input and the consumer takes what is
\* sent, and a select whose ctx.Done() case is ready again and again takes
\* it in the end. Whether the context is ever cancelled is up to the caller.
RateLimitLiveSpec ==
    /\ RateLimitSpec
    /\ WF_vars(RlMainGoes) /\ WF_vars(RlTickerStep) /\ WF_vars(RefillStep)
    /\ SF_vars(RefillBegin("wait")) /\ SF_vars(TickerExit)
    /\ WF_vars(RlTick) /\ WF_vars(RlProducerClose)

\* Tee under a context that is never cancelled, every goroutine that can run
\* being scheduled, the producer closing the input and the consumers reading
TeeLiveSpec == TeeInit /\ [][TeeRunNext]_vars /\ WF_vars(TeeRunNext)

\* a step the stage goroutine or a sender takes on its own: the ctx.Done()
\* case of a select, the return on a closed input, the return of wg.Wait(),
\* a deferred close
TeeGoroutineStep ==
    \/ TeeCancelRecv \/ TeeInputClosed \/ TeeCancelSend
    \/ TeeWait \/ TeeCloseAux \/ TeeCloseOut
    \/ \E k \in 1..MaxAux : SenderCancel(k)

\* The scheduler runs some goroutine that can take such a step.  No
\* obligation on the producer or the consumers: an auxiliary output may
\* stay unread.
TeeFairSpec == TeeSpec /\ WF_vars(TeeGoroutineStep)

PipeSpec == PipeInit /\ [][PipeNext]_vars

BatchSpec == BatchInit /\ [][BatchNext]_vars

FanInSpec == FanInInit /\ [][FanInNext]_vars

\* FanIn where the closer goroutine, once it can go on, is scheduled; no
\* obligation on the forwarders, the producers or the consumer
FanInFairSpec == FanInSpec /\ WF_vars(FanInCloser)

RRSpec == RRInit /\ [][RRNext]_vars

FofiSpec == FofiInit /\ [][FofiNext]_vars

\* FanOutFanIn under a context that is never cancelled
FofiRunSpec == FofiInit /\ [][FofiRunNext]_vars

\* ... where every goroutine that can run is scheduled, the producer closes
\* the input and the consumer drains the output
FofiLiveSpec ==
    /\ FofiRunSpec
    /\ WF_vars(FoCloser) /\ WF_vars(FoProducerClose)
    /\ \A w \in 1..MaxFoN :
          /\ WF_vars(FoDistRecv(w)) /\ WF_vars(FoDistInputClosed(w))
          /\ WF_vars(FoDistSend(w)) /\ WF_vars(FoWorkerChClosed(w))
          /\ WF_vars(FoWorkerFn(w)) /\ WF_vars(FoWorkerSend(w))
          /\ WF_vars(FoWorkerCloser(w)) /\ WF_vars(FoFwdInputClosed(w))
          /\ WF_vars(FoFwdSend(w))

\* Go's select picks at random among its ready cases, so a case that is
\* ready again and again is eventually taken (SF); a goroutine that can
\* run is eventually scheduled (WF).  The producer and the consumer are
\* under no obligation here: the input may stay open and the output unread.
PoolFairSpec ==
    /\ PoolSpec
    /\ \A w \in 1..MaxN : SF_vars(WorkerCancel(w)) /\ WF_vars(WorkerFn(w))
    /\ WF_vars(PoolCloser)

\* FanIn, FanOutFanIn and RoundRobin on short inputs, fn never failing
FanInit ==
    /\ FanInInit \/ FofiInit \/ RRInit
    /\ fnFail = {}
    /\ fanin.per <= MaxCancelLen
    /\ Len(fofi.src) <= MaxCancelLen
    /\ Len(rr.src) <= MaxCancelLen

FanNext == FanInNext \/ FofiNext \/ RRNext

\* a step a goroutine of the fan forms takes on its own once the context is
\* cancelled or its channel closed: the ctx.Done() case of a select, the
\* return of fn, the return on a closed channel, a deferred close, a closer
FanGoroutineStep ==
    \/ FanInCloser \/ RRCloser \/ FoCloser
    \/ DistCancel \/ DistClose
    \/ \E k \in 1..MaxN : FwdCancel(k)
    \/ \E w \in 1..MaxN :
          \/ RRWorkerCancel(w) \/ RRFwdCancel(w)
          \/ RRWorkerChClosed(w) \/ RRWorkerFn(w)
          \/ RRWorkerCloser(w) \/ RRFwdInputClosed(w)
    \/ \E w \in 1..MaxFoN :
          \/ FoDistCancel(w) \/ FoWorkerCancel(w) \/ FoFwdCancel(w)
          \/ FoWorkerChClosed(w) \/ FoWorkerFn(w)
          \/ FoWorkerCloser(w) \/ FoFwdInputClosed(w)

\* The scheduler runs some goroutine that can take such a step: the
\* goroutines do not all stand still while one of them can go on.  No
\* obligation on producers or consumer: the inputs may stay open and the
\* output unread.
FanFairSpec ==
    /\ FanInit /\ [][FanNext]_vars
    /\ WF_vars(FanGoroutineStep)

\* a step a stage goroutine takes on its own: the ctx.Done() case of a
\* select, the return on a closed input
PipeGoroutineStep ==
    \E j \in 1..MaxStages : StageCancel(j) \/ StageInputClosed(j)

\* The scheduler runs some stage goroutine that can take such a step; no
\* obligation on producer, consumer or caller.
PipeFairSpec ==
    /\ PipeSpec
    /\ WF_vars(PipeGoroutineStep)

\* NewPool, FanOut and RoundRobin given a worker count that is not positive
CoerceInit ==
    \/ PoolInitOf((-MaxN)..0)
    \/ FanOutInitOf((-MaxN)..0)
    \/ RRInitOf((-MaxN)..0)

CoerceNext == PoolNext \/ RRNext

\* ... where goroutines, producer and consumer do not all stand still while
\* one of them can go on; the context may be cancelled or not.
CoerceSpec == CoerceInit /\ [][CoerceNext]_vars /\ WF_vars(CoerceNext)

\* Pool.Run from NewPool on, or FanOut's goroutines just launched
PoolFanInit == PoolInit \/ FanOutInitOf(0..MaxN)

PoolFanSpec == PoolFanInit /\ [][PoolNext]_vars

\* The producer closes the input and the consumer drains the output.
PoolLiveSpec ==
    /\ PoolFairSpec
    /\ WF_vars(PoolRun) /\ WF_vars(ProducerClose)
    /\ \A w \in 1..MaxN :
          WF_vars(WorkerRecv(w)) /\ WF_vars(WorkerSend(w)) /\ WF_vars(WorkerJobsClosed(w))

\* ====================================================================
\* Claims
\* ====================================================================

\* number of occurrences of v in the sequence s
Occ(s, v) == Cardinality({i \in 1..Len(s) : s[i] = v})

\* C1: when some invocation of fn returned an error and the context was
\* never cancelled, MapConcurrent returns a nil slice and the error of one
\* of the failing invocations.
C1_AbortOnError ==
    (mcPc = "returned" /\ ~ctxDone /\ \E i \in 1..Len(mcIn) : mcIn[i] \in fnFail)
        => /\ mcRet.out = NilSlice
           /\ \E i \in 1..Len(mcIn) : mcIn[i] \in fnFail /\ mcRet.err = FnErr(mcIn[i])

\* C2: a return with a nil error carries len(in) results and out[i] is
\* fn(in[i]) for every i on which fn succeeds; an empty input gives an
\* empty, non-nil result.
C2_NilErrorFullResult ==
    (mcPc = "returned" /\ mcRet.err = NilErr)
        => /\ ~mcRet.out.isNil
           /\ Len(mcRet.out.elems) = Len(mcIn)
           /\ \A i \in 1..Len(mcIn) :
                 mcIn[i] \notin fnFail => mcRet.out.elems[i] = FnVal(mcIn[i])

\* C6: Tee closes every auxiliary output at most once and never sends on
\* one it has closed, also when the scope is cancelled while senders of the
\* current item are pending.
C6_TeeNoSendAfterClose ==
    /\ ~tee.panic
    /\ \A k \in 1..MaxAux : tee.auxCloses[k] <= 1

\* the sequence a Map / Filter stage makes of the sequence s
StageResult(kind, s) ==
    IF kind \in {"double", "inc"}
    THEN [i \in 1..Len(s) |-> IF kind = "double" THEN s[i] * 2 ELSE s[i] + 1]
    ELSE SelectSeq(s, LAMBDA v : v > 2)

\* sk(...s1(s)...) for the stages s1..sk in this order
RECURSIVE Composed(_, _)
Composed(stages, s) ==
    IF stages = <<>> THEN s
    ELSE Composed(Tail(stages), StageResult(Head(stages), s))

\* the channel Run returned is closed
PipeOutClosed == pipe.pc = "running" /\ pipe.spc[NStages] = "exited"

\* C7: without cancellation, when the output of Run is closed the input is
\* closed and drained and the items emitted are sk(...s1(input)...) for the
\* stages in registration order; until then they are a prefix of it.
C7_StagesInOrder ==
    /\ (pipe.pc = "running" /\ ~ctxDone) =>
          \E n \in 0..MaxLen : /\ n <= Len(Composed(pipe.calls, pipe.src))
                               /\ pipe.got = SubSeq(Composed(pipe.calls, pipe.src), 1, n)
    /\ (PipeOutClosed /\ ~ctxDone) =>
          /\ pipe.inClosed /\ pipe.input = <<>>
          /\ pipe.got = Composed(pipe.calls, pipe.src)

C7_Witness ==
    /\ PipeOutClosed /\ ~ctxDone
    /\ pipe.calls = <<"double", "big">>
    /\ pipe.src = Iota(MaxLen)
    /\ pipe.got # <<>> /\ Len(pipe.got) < MaxLen

RECURSIVE Concat(_)
Concat(ss) == IF ss = <<>> THEN <<>> ELSE Head(ss) \o Concat(Tail(ss))

\* C8: without cancellation, when the output of Batch(S) is closed (S <= 0
\* counting as 1) the batches emitted concatenate to the input of length L,
\* floor(L/S) of them have S items, and a last smaller one of L mod S items
\* was emitted iff L mod S # 0.
C8_BatchCompleteness ==
    (batch.closes > 0 /\ ~ctxDone) =>
        LET S == IF batch.sizeArg <= 0 THEN 1 ELSE batch.sizeArg
            L == Len(batch.src)
            full == {i \in 1..Len(batch.got) : Len(batch.got[i]) = S}
        IN  /\ Concat(batch.got) = batch.src
            /\ Cardinality(full) = L \div S
            /\ full = 1..(L \div S)
            /\ IF L % S # 0
               THEN /\ Len(batch.got) = (L \div S) + 1
                    /\ Len(batch.got[Len(batch.got)]) = L % S
               ELSE Len(batch.got) = L \div S

C8_Witness ==
    /\ batch.closes = 1 /\ ~ctxDone
    /\ batch.sizeArg = 3 /\ Len(batch.src) = MaxBatchLen
    /\ Len(batch.got) = 3

\* C9: without cancellation, when the output of FanIn over N sources of k
\* items each is closed, every source is closed and drained and the output
\* has emitted each of the N*k items exactly once.
C9_FanInCompleteness ==
    (fanin.closes > 0 /\ ~ctxDone) =>
        /\ Len(fanin.got) = fanin.n * fanin.per
        /\ \A k \in 1..fanin.n :
              /\ fanin.inClosed[k] /\ fanin.input[k] = <<>>
              /\ \A i \in 1..fanin.per : Occ(fanin.got, Item(k, i)) = 1

C9_Witness ==
    /\ fanin.closes = 1 /\ ~ctxDone
    /\ fanin.n = MaxN /\ fanin.per = MaxPer
    /\ Len(fanin.got) = MaxN * MaxPer
    /\ fanin.got[1].from = 2

\* workers as RoundRobin counts them: at least one
RRCount == IF rr.workersArg <= 0 THEN 1 ELSE rr.workersArg

\* C10: the k-th item received from the input (k from 0; it is the item
\* k + 1) is the one sent to worker channel k mod W, in this order on each
\* channel; so without cancellation, once the M items are distributed with
\* M a multiple of W, every worker was assigned M/W items.
C10_RoundRobinAssignment ==
    /\ \A w \in 1..MaxN : \A p \in 1..Len(rr.assigned[w]) :
          /\ w <= RRCount
          /\ rr.assigned[w][p] = (p - 1) * RRCount + w
          /\ (rr.assigned[w][p] - 1) % RRCount = w - 1
    /\ (rr.dpc = "exited" /\ ~ctxDone /\ Len(rr.src) % RRCount = 0) =>
          \A w \in 1..RRCount : Len(rr.assigned[w]) = Len(rr.src) \div RRCount

C10_Witness ==
    /\ rr.dpc = "exited" /\ ~ctxDone
    /\ rr.workers = 2 /\ Len(rr.src) = 3
    /\ rr.assigned[1] = <<1, 3>> /\ rr.assigned[2] = <<2>>

\* C3: the results channel of a Run call is closed at most once, only when
\* every worker has exited, and no worker sends on it after the close.
C3_CloseAfterWorkers ==
    /\ pool.closes <= 1
    /\ ~pool.panic
    /\ pool.closes > 0 => \A w \in PoolWorkers : pool.wpc[w] = "exited"

C3_Witness ==
    /\ pool.closes = 1 /\ pool.workers = 2
    /\ Len(pool.emitted) >= 2 /\ ~ctxDone

\* what the pool has emitted is exactly fn of the received items on which
\* fn succeeded, the input is closed and nothing of it is left unsent
PoolDrained ==
    /\ pool.jobsClosed /\ pool.jobs = <<>>
    /\ Len(pool.emitted) = Cardinality({i \in 1..Len(pool.recvd) : pool.recvd[i] \notin fnFail})
    /\ \A v \in Vals :
          Occ(pool.emitted, FnVal(v)) = IF v \in fnFail THEN 0 ELSE Occ(pool.recvd, v)

\* C4: with no cancellation, a closed input and a draining consumer, the
\* output closes, and when it is closed the multiset of emitted values is
\* { fn(x) : x sent on the input, fn(x) succeeded }.
C4_EmitsSuccesses ==
    /\ []((pool.closes > 0 /\ ~ctxDone) => PoolDrained)
    /\ <>(pool.closes > 0)

C4_Witness ==
    /\ pool.closes = 1 /\ ~ctxDone
    /\ Len(pool.recvd) = MaxLen
    /\ \E i \in 1..Len(pool.recvd) : pool.recvd[i] \in fnFail
    /\ Len(pool.emitted) >= 1

\* C5: once the context of a running pool is cancelled, every worker exits
\* and results is closed, whether or not the input is ever closed or the
\* output read.
C5_CancelStopsPool ==
    (pool.pc = "running" /\ ctxDone)
        ~> (pool.closes = 1 /\ \A w \in PoolWorkers : pool.wpc[w] = "exited")

C5_Witness ==
    /\ ctxDone /\ pool.closes = 1
    /\ ~pool.jobsClosed /\ pool.jobs # <<>>
    /\ pool.emitted = <<>> /\ pool.recvd # <<>>

\* the invocations of fn that are in flight
McInFlight == {i \in 1..Len(mcIn) : mcTask[i] = "fn"}

\* C11: at no moment are more than max(n, 1) invocations of fn in flight
\* in MapConcurrent; with n <= 0 the invocations are strictly sequential.
C11_ConcurrencyBound ==
    Cardinality(McInFlight) <= (IF mcN >= 1 THEN mcN ELSE 1)

C11_Witness ==
    /\ mcN = 2 /\ Len(mcIn) = MaxLen
    /\ Cardinality(McInFlight) = 2
    /\ mcTask[MaxLen] = "unborn"

\* C12: when the context is cancelled before every element was processed
\* (fn failing on none), MapConcurrent returns a nil slice and the context's
\* error, never a nil error with an unprocessed element in the result.
C12_CancelReturnsCtxErr ==
    (mcPc = "returned" /\ ctxDone /\ fnFail = {}
        /\ \E i \in 1..Len(mcIn) : mcOut[i] # FnVal(mcIn[i]))
        => mcRet = [out |-> NilSlice, err |-> CtxErr]

\* an invocation of fn has returned an error: it is in errs or was read
McErrorSeen == Len(mcErrs) > 0 \/ mcErr # NilErr

\* C13: once an invocation of fn has returned an error, MapConcurrent
\* launches no goroutine, hence no invocation of fn, for an element not yet
\* started.
C13_NoLaunchAfterError ==
    [][McErrorSeen => \A i \in 1..Len(mcIn) :
                         mcTask[i] = "unborn" => mcTask'[i] = "unborn"]_vars

\* C19: once the context is cancelled no Pool worker takes another job from
\* the input: the sequence of received jobs no longer grows, so fn is not
\* started on an item received after the cancellation.
C19_NoRecvAfterCancel ==
    [][ctxDone => pool'.recvd = pool.recvd]_vars

\* every goroutine Run started has exited
PipeAllExited == \A j \in 1..NStages : pipe.spc[j] = "exited"

\* C17: after Close or the cancellation of the parent context, every stage
\* goroutine of a running pipeline exits and the output of Run is closed,
\* whether or not the input is ever closed or the output read.
C17_CloseStopsPipeline ==
    (pipe.pc = "running" /\ ctxDone) ~> (PipeAllExited /\ pipe.closes[NStages] = 1)

C17_Witness ==
    /\ pipe.pc = "running" /\ ctxDone /\ pipe.closeCalls = 1
    /\ Len(pipe.stages) = 2 /\ PipeAllExited
    /\ ~pipe.inClosed /\ pipe.input # <<>>
    /\ pipe.held[2] # 0 /\ pipe.got = <<>>

\* all of the pipeline but the count of Close calls
PipeButCloseCalls(p) == [p EXCEPT !.closeCalls = 0]

\* C18: however often Close is called, before or after Run and after the
\* parent's cancellation, no channel of the pipeline is closed twice (which
\* would panic), and a Close on a cancelled pipeline changes nothing.
C18_IdempotentClose ==
    /\ [](\A j \in 1..MaxStages : pipe.closes[j] <= 1)
    /\ [][(ctxDone /\ pipe'.closeCalls > pipe.closeCalls)
            => /\ ctxDone' = ctxDone
               /\ PipeButCloseCalls(pipe') = PipeButCloseCalls(pipe)]_vars

C18_Witness ==
    /\ pipe.closeCalls = MaxClose /\ ctxDone
    /\ pipe.pc = "running" /\ Len(pipe.stages) = 2 /\ PipeAllExited
    /\ pipe.closes[1] = 1 /\ pipe.closes[2] = 1

\* Run was called on a pipeline without stages
PipeEmptyRunning == pipe.pc = "running" /\ pipe.stages = <<>>

\* C20: Run on a pipeline without stages gives an output of its own, fed by
\* one goroutine: it emits the input's items unchanged and in order; closing
\* the input does not by itself close it; it is closed once the input is
\* drained, and on cancellation also while the input stays open.
C20_EmptyPipelinePassThrough ==
    /\ [](PipeEmptyRunning =>
            /\ NStages = 1
            /\ Len(pipe.got) <= Len(pipe.src)
            /\ pipe.got = SubSeq(pipe.src, 1, Len(pipe.got))
            /\ pipe.closes[1] <= 1
            /\ (pipe.closes[1] = 1 /\ ~ctxDone) =>
                  pipe.inClosed /\ pipe.input = <<>> /\ pipe.got = pipe.src)
    /\ [][PipeEmptyRunning /\ pipe'.inClosed # pipe.inClosed
            => pipe'.closes = pipe.closes]_vars
    /\ (PipeEmptyRunning /\ ctxDone) ~> (pipe.closes[1] = 1)
    /\ (PipeEmptyRunning /\ pipe.inClosed /\ pipe.input = <<>> /\ pipe.spc[1] = "recv")
          ~> (pipe.closes[1] = 1)

C20_Witness ==
    /\ PipeEmptyRunning /\ ~ctxDone
    /\ pipe.closes[1] = 1 /\ pipe.inClosed
    /\ pipe.src = Iota(MaxLen) /\ pipe.got = pipe.src

\* every item of the input was read and its result emitted exactly once
FofiAllEmitted ==
    /\ fofi.inClosed /\ fofi.input = <<>>
    /\ \A v \in Vals :
          fofi.got[FnVal(v)] = IF v <= Len(fofi.src) /\ v \notin fnFail THEN 1 ELSE 0

\* C14: with workers >= 1 and no cancellation an item of the input reaches
\* the output at most once, and when the output of FanOutFanIn is closed
\* the input is closed and drained and every item on which fn succeeded was
\* emitted exactly once.
\* With a closed input and a draining consumer the output is eventually
\* closed.
C14_FanOutFanInCompleteness ==
    /\ []((fofi.workersArg >= 1 /\ ~ctxDone) =>
            /\ \A v \in Vals : fofi.got[FnVal(v)] <= 1
            /\ ~fofi.panic /\ fofi.closes <= 1
            /\ fofi.closes > 0 => FofiAllEmitted)
    /\ (fofi.pc = "running" /\ fofi.workersArg >= 1) ~> (fofi.closes = 1)

C14_Witness ==
    /\ fofi.workersArg = 2 /\ ~ctxDone /\ fnFail = {}
    /\ fofi.closes = 1 /\ Len(fofi.src) = MaxFoLen
    /\ \A v \in 1..MaxFoLen : fofi.got[FnVal(v)] = 1

\* C15: a worker count <= 0 is taken as one worker by FanOutFanIn: the call
\* does not fail, and without cancellation the output is closed only after
\* every input item was read, processed and emitted.
C15_FanOutFanInNormalizes ==
    (fofi.workersArg <= 0 /\ fofi.pc # "off") =>
        /\ fofi.pc = "running" /\ ~fofi.panic
        /\ (fofi.closes > 0 /\ ~ctxDone) => FofiAllEmitted

\* FanIn: every forwarder has exited and the output is closed
FanInStopped ==
    /\ \A k \in 1..fanin.n : fanin.fpc[k] = "exited"
    /\ fanin.closes = 1

\* RoundRobin: distributor, workers and forwarders have exited, every
\* worker channel and worker output is closed, and so is the output
RRStopped ==
    /\ rr.dpc = "exited"
    /\ \A w \in 1..rr.workers :
          /\ rr.chCloses[w] = 1
          /\ rr.wpc[w] = "exited" /\ rr.wOutCloses[w] = 1
          /\ rr.fpc[w] = "exited"
    /\ rr.closes = 1

\* FanOutFanIn: the same for its distributors, workers and forwarders
FofiStopped ==
    /\ \A w \in 1..FofiChains(fofi.workersArg) :
          /\ fofi.dpc[w] = "exited" /\ fofi.chCloses[w] = 1
          /\ fofi.wpc[w] = "exited" /\ fofi.wOutCloses[w] = 1
          /\ fofi.fpc[w] = "exited"
    /\ fofi.closes = 1

\* C16: for FanIn, FanOutFanIn and RoundRobin that returned their output,
\* no channel is ever closed twice and no send meets a closed channel; and
\* once the context is cancelled every distributor, worker and forwarder
\* exits, every worker channel is closed once and the output is closed once,
\* whether or not the inputs are ever closed.
C16_FanCancelStops ==
    /\ [](/\ fanin.closes <= 1 /\ ~fanin.panic
          /\ rr.closes <= 1 /\ ~rr.panic
          /\ fofi.closes <= 1 /\ (fofi.pc = "running" => ~fofi.panic)
          /\ \A w \in 1..MaxN : rr.chCloses[w] <= 1 /\ rr.wOutCloses[w] <= 1
          /\ \A w \in 1..MaxFoN : fofi.chCloses[w] <= 1 /\ fofi.wOutCloses[w] <= 1)
    /\ (fanin.pc = "running" /\ ctxDone) ~> FanInStopped
    /\ (rr.pc = "running" /\ ctxDone) ~> RRStopped
    /\ (fofi.pc = "running" /\ ctxDone) ~> FofiStopped

C16_Witness ==
    /\ rr.pc = "running" /\ ctxDone /\ RRStopped
    /\ rr.workers = 2
    /\ ~rr.inClosed /\ rr.input # <<>>

\* s is an initial part of t
IsPrefix(s, t) == Len(s) <= Len(t) /\ \A i \in 1..Len(s) : s[i] = t[i]

\* what the consumers of Tee have received is an initial part of the input,
\* and a closed stream has delivered all of it
TeeDelivered ==
    /\ ~tee.panic
    /\ IsPrefix(tee.mainGot, tee.src)
    /\ tee.outCloses <= 1
    /\ tee.outCloses = 1 => tee.mainGot = tee.src
    /\ \A k \in 1..tee.nAux :
          /\ IsPrefix(tee.auxGot[k], tee.src)
          /\ tee.auxCloses[k] <= 1
          /\ tee.auxCloses[k] = 1 => tee.auxGot[k] = tee.src

\* the primary output and every auxiliary output are closed
TeeAllClosed ==
    /\ tee.outCloses = 1
    /\ \A k \in 1..tee.nAux : tee.auxCloses[k] = 1

\* C21: with no cancellation and all outputs consumed, the primary output
\* and every auxiliary output of Tee receive exactly the input sequence, in
\* input order, and are then closed.
C21_TeeDeliversAll ==
    /\ [](tee.pc # "off" => TeeDelivered)
    /\ <>(TeeAllClosed /\ TeeDelivered)

C21_Witness ==
    /\ TeeAllClosed /\ ~ctxDone
    /\ tee.nAux = 2 /\ Len(tee.src) = 3
    /\ tee.mainGot = tee.src
    /\ tee.auxGot[1] = tee.src /\ tee.auxGot[2] = tee.src

\* Tee has stopped: every output closed once, no sender of the current item
\* left, and no goroutine has panicked (a panic ends the program)
TeeStopped ==
    /\ TeeAllClosed
    /\ \A k \in 1..tee.nAux : tee.snd[k] # "pending"
    /\ ~tee.panic

\* the input of Tee is drained and closed, or the context is cancelled
TeeDrainedOrCancelled ==
    /\ tee.pc # "off"
    /\ \/ ctxDone
       \/ tee.pc = "recv" /\ tee.input = <<>> /\ tee.inClosed

\* C22: when the input of Tee drains or the context is cancelled, the
\* primary output and every auxiliary output are eventually closed and every
\* sender has exited, also when a consumer of an auxiliary output has
\* stopped reading.
C22_TeeClosesAll == TeeDrainedOrCancelled ~> TeeStopped

\* the items of the groups Unbatch has not yet taken apart, in order
UnbatchRest ==
    SubSeq(unbatch.batch, unbatch.idx, Len(unbatch.batch)) \o Concat(unbatch.input)

\* C23: what Unbatch has emitted is always an initial part of the
\* concatenation of the groups sent to it (items in their order within the
\* group, groups in arrival order, nothing added); while it runs, emitted
\* and pending items together are that concatenation (nothing dropped); and
\* when its output is closed with no cancellation it has emitted all of it.
C23_UnbatchConcatenates ==
    /\ IsPrefix(unbatch.got, Concat(unbatch.src))
    /\ unbatch.closes <= 1
    /\ unbatch.pc \in {"recv", "send"}
          => unbatch.got \o UnbatchRest = Concat(unbatch.src)
    /\ (unbatch.closes = 1 /\ ~ctxDone) => unbatch.got = Concat(unbatch.src)

C23_Witness ==
    /\ unbatch.closes = 1 /\ ~ctxDone
    /\ unbatch.src = <<<<1, 2>>, <<>>, <<3>>>>
    /\ unbatch.got = <<1, 2, 3>>

\* FanIn was called with no input stream
FanInNoInputs == fanin.pc = "running" /\ fanin.n = 0

PoolLaunched == {w \in 1..MaxN : pool.wpc[w] # "none"}
RRLaunched == {w \in 1..MaxN : rr.wpc[w] # "none"}

\* RoundRobin has taken every item of its closed input and emitted, once,
\* the result of each item on which fn succeeded
RRDrained ==
    /\ rr.inClosed /\ rr.input = <<>>
    /\ \A v \in Vals :
          rr.got[FnVal(v)] = IF v \in 1..Len(rr.src) /\ v \notin fnFail THEN 1 ELSE 0

\* C25: a worker count <= 0 given to NewPool, FanOut or RoundRobin becomes
\* 1: the running call has exactly one worker, its output is closed once,
\* and when it is closed with no cancellation every input item was taken
\* and the result of every item on which fn succeeded was emitted.
C25_WorkerCountCoerced ==
    /\ []((pool.pc # "off" /\ pool.workersArg <= 0)
            => /\ pool.workers = 1
               /\ pool.pc = "running" => Cardinality(PoolLaunched) = 1
               /\ pool.closes <= 1 /\ ~pool.panic
               /\ (pool.closes = 1 /\ ~ctxDone)
                     => PoolDrained)
    /\ []((rr.pc # "off" /\ rr.workersArg <= 0)
            => /\ rr.workers = 1
               /\ Cardinality(RRLaunched) = 1
               /\ rr.closes <= 1 /\ ~rr.panic
               /\ (rr.closes = 1 /\ ~ctxDone) => RRDrained)
    /\ <>(pool.closes = 1 \/ rr.closes = 1)

C25_Witness ==
    /\ rr.pc = "running" /\ rr.workersArg = -1 /\ ~ctxDone
    /\ rr.closes = 1 /\ Len(rr.src) = MaxLen
    /\ rr.got[FnVal(MaxLen)] = 1

\* the outcomes of fn among what Execute returned, in order
FnOutcomes(log) == SelectSeq(log, LAMBDA r : r \in {"ok", "fail"})

\* the number of failures of fn since its last success
RECURSIVE TrailingFails(_)
TrailingFails(o) ==
    IF o = <<>> \/ o[Len(o)] # "fail" THEN 0
    ELSE 1 + TrailingFails(SubSeq(o, 1, Len(o) - 1))

\* a step in which a call of Execute returns r
CbReturns(r) == cb'.log = Append(cb.log, r)

\* a step in which a call of Execute passes the first critical section
CbAdmits == \E c \in 1..MaxCallers : cb.cpc[c] = "idle" /\ cb'.cpc[c] = "fn"

\* a step in which a call of Execute begins
CbBegins == CbAdmits \/ CbReturns("ctx") \/ CbReturns("open")

\* the breaker is open and resetTimeout has not elapsed since the last failure
CbOpenAndWaiting ==
    cb.state = StateOpen /\ cb.now - cb.lastFailureTime < cb.resetTimeout

\* C26: the breaker, closed at first, is opened by the failure of fn that
\* makes failureThreshold failures in a row, and by no earlier one; a
\* success resets the failure count to 0; and a call of Execute that begins
\* while the breaker is open with less than resetTimeout elapsed since the
\* last failure returns an error, does not invoke fn and leaves it open.
C26_OpensAtThreshold ==
    /\ [](cb.failureCount = TrailingFails(FnOutcomes(cb.log)))
    /\ [][/\ CbReturns("fail") =>
               IF TrailingFails(FnOutcomes(cb'.log)) >= cb.failureThreshold
               THEN cb'.state = StateOpen
               ELSE cb.state = StateClosed /\ cb'.state = StateClosed
          /\ CbReturns("ok") => cb'.failureCount = 0
          /\ (CbBegins /\ CbOpenAndWaiting) =>
                /\ CbReturns("open") \/ CbReturns("ctx")
                /\ ~CbAdmits
                /\ cb'.state = StateOpen]_vars

C26_Witness ==
    /\ cb.state = StateOpen
    /\ cb.failureThreshold = 2
    /\ cb.log = <<"fail", "ok", "fail", "fail">>

\* the callers a half-open breaker has let through to fn and that are
\* still inside fn
CbTrials == {c \in 1..MaxCallers : cb.cpc[c] = "fn" /\ cb.trial[c]}

\* a step in which a trial call returns from its last critical section
CbTrialReturns ==
    \E c \in 1..MaxCallers : c \in CbTrials /\ cb'.cpc[c] = "idle"

\* C27: a call of Execute (its context not cancelled) that begins while the
\* breaker is open with resetTimeout elapsed since the last failure makes
\* it half-open and invokes fn; when a call let through by the half-open
\* breaker succeeds the breaker becomes closed with failure count 0, and
\* when it fails the breaker becomes open.
C27_HalfOpenTrial ==
    [][/\ (CbBegins /\ ~ctxDone /\ cb.state = StateOpen
              /\ cb.now - cb.lastFailureTime >= cb.resetTimeout)
            => (CbAdmits /\ cb'.state = StateHalfOpen /\ cb'.log = cb.log)
       /\ (CbTrialReturns /\ CbReturns("ok"))
            => (cb'.state = StateClosed /\ cb'.failureCount = 0)
       /\ (CbTrialReturns /\ CbReturns("fail"))
            => cb'.state = StateOpen]_vars

\* C28: a half-open breaker allows one request: at no time are two calls
\* that it let through inside fn.
C28_HalfOpenAdmitsOne == Cardinality(CbTrials) <= 1

\* the invocations of fn so far, and the last one's result
RetryInvocations == Len(retry.outcomes) + (IF retry.pc = "fn" THEN 1 ELSE 0)
RetryLastOutcome == retry.outcomes[Len(retry.outcomes)]

\* C29: Retry invokes fn at most MaxRetries + 1 times; an attempt that
\* succeeds is the last one and Retry then returns nil; and when Retry has
\* made MaxRetries + 1 attempts that all failed with retryable errors it
\* returns the error of the last attempt.
C29_RetryBudget ==
    /\ RetryInvocations <= retry.maxRetries + 1
    /\ \A i \in 1..Len(retry.outcomes) :
          retry.outcomes[i].kind = "nil"
             => /\ i = Len(retry.outcomes)
                /\ retry.pc = "returned" /\ retry.ret = RetryNil
    /\ (/\ retry.pc = "returned"
        /\ Len(retry.outcomes) >= 1
        /\ Len(retry.outcomes) = retry.maxRetries + 1
        /\ \A i \in 1..Len(retry.outcomes) :
              \/ retry.outcomes[i].kind = "plain"
              \/ retry.outcomes[i].kind = "retryable" /\ retry.outcomes[i].flag)
          => (retry.ret = RetryLastOutcome /\ retry.ret.no = retry.maxRetries + 1)

C29_Witness ==
    /\ retry.pc = "returned" /\ retry.maxRetries = MaxRetries
    /\ Len(retry.outcomes) = MaxRetries + 1
    /\ retry.ret = RetryErr("plain", FALSE, MaxRetries + 1)
    /\ retry.delays = MaxRetries

\* a RetryableError whose Retryable flag is false
NotRetryable(e) == e.kind = "retryable" /\ ~e.flag

\* C30: when an attempt of fn returns a RetryableError whose flag is false,
\* Retry returns that error at once, with no delay and no further
\* invocation of fn, whatever budget is left; an error that holds no
\* RetryableError is retried like a retryable one while budget is left.
C30_NonRetryableReturns ==
    /\ [](\A i \in 1..Len(retry.outcomes) :
             NotRetryable(retry.outcomes[i])
                => /\ i = Len(retry.outcomes)
                   /\ retry.pc = "returned" /\ retry.ret = retry.outcomes[i]
                   /\ retry.delays = i - 1)
    /\ [][\A n \in 1..(MaxRetries + 1) :
            (/\ retry'.outcomes = Append(retry.outcomes, RetryErr("plain", FALSE, n))
             /\ retry.attempt < retry.maxRetries)
               => retry'.pc = "delay"]_vars

C30_Witness ==
    /\ retry.pc = "returned" /\ retry.maxRetries = MaxRetries
    /\ retry.outcomes = <<RetryErr("plain", FALSE, 1), RetryErr("retryable", FALSE, 2)>>
    /\ retry.ret = RetryErr("retryable", FALSE, 2)

\* the number of items each output stream of Tee has received: the primary
\* output first, then the auxiliary outputs
TeeCounts ==
    {Len(tee.mainGot)} \cup {Len(tee.auxGot[k]) : k \in 1..tee.nAux}

\* the number of items Tee has taken from its input
TeeTaken == Len(tee.src) - Len(tee.input)

\* C32: Tee receives an input item only when every item it has taken so
\* far has been sent on the primary output and on every auxiliary output,
\* so at any moment no output stream is more than one item ahead of any
\* other.
C32_TeeLockStep ==
    /\ [][Len(tee'.input) < Len(tee.input) => TeeCounts = {TeeTaken}]_vars
    /\ [](\A a, b \in TeeCounts : a - b <= 1)

\* a source of FanIn is drained: closed with nothing left
SourceDrained(k) == fanin.inClosed[k] /\ fanin.input[k] = <<>>

\* C33: the output of FanIn (and of Merge, the same code) is closed at most
\* once, and when it is closed every forwarding task has exited, each with
\* its source drained or the cancellation observed; no forwarding task
\* sends on the closed output.
C33_FanInCloseAfterForwarders ==
    /\ fanin.closes <= 1
    /\ ~fanin.panic
    /\ fanin.closes = 1
          => \A k \in 1..fanin.n :
                /\ fanin.fpc[k] = "exited"
                /\ SourceDrained(k) \/ ctxDone

C33_Witness ==
    /\ fanin.closes = 1 /\ fanin.n = MaxN /\ ctxDone
    /\ \A k \in 1..fanin.n : fanin.fpc[k] = "exited"
    /\ ~SourceDrained(1) /\ SourceDrained(2)
    /\ Len(fanin.got) >= 1

\* the items of source k among those the output has emitted, in order
FromSource(k) == SelectSeq(fanin.got, LAMBDA it : it.from = k)

\* C36: for each source of FanIn (and of Merge, the same code), the items
\* forwarded from it appear on the output in the order the source emitted
\* them: they are the first items of the source, in order, whatever the
\* interleaving with other sources and also after cancellation.
C36_FanInPerSourceOrder ==
    \A k \in 1..MaxN :
        /\ Len(FromSource(k)) <= fanin.per
        /\ \A i \in 1..Len(FromSource(k)) : FromSource(k)[i] = Item(k, i)

C36_Witness ==
    fanin.got = <<Item(2, 1), Item(1, 1), Item(1, 2), Item(2, 2)>>

\* the tasks MapConcurrent launched that have not finished
McUnfinished == {i \in 1..Len(mcIn) : mcTask[i] \notin {"unborn", "exited"}}

\* C34: whenever MapConcurrent has returned, with a result, an fn error or
\* a cancellation error, no invocation of fn is in flight and every task it
\* started has finished.
C34_NoneInFlightAfterReturn ==
    mcPc = "returned" => /\ McInFlight = {}
                         /\ McUnfinished = {}
                         /\ mcWg = 0 /\ mcSem = 0

C34_Witness ==
    /\ mcPc = "returned" /\ mcRet.err = CtxErr
    /\ mcN = 2 /\ Len(mcIn) = MaxLen
    /\ mcTask[1] = "exited" /\ mcTask[2] = "exited" /\ mcTask[MaxLen] = "unborn"
    /\ mcOut[1] # 0 /\ mcOut[2] # 0

\* the workers that hold an item: received, not yet sent or dropped
PoolHolding == {w \in 1..MaxN : pool.wpc[w] \in {"fn", "send"}}

\* what worker w will send, or would have sent, for the item it holds
PoolHeldResult(w) ==
    IF pool.wpc[w] = "fn" THEN FnVal(pool.item[w]) ELSE pool.item[w]

\* C35: in Pool.Run and FanOut every input item is received once, by one
\* worker, and yields at most one output value: the values emitted and the
\* items still held never outnumber the items received, each emitted value
\* is the result of one received item that did not fail, no value is
\* emitted twice, and no held item has been emitted.
C35_AtMostOncePerItem ==
    /\ IsPrefix(pool.recvd, Iota(MaxLen))
    /\ Len(pool.emitted) + Cardinality(PoolHolding) <= Len(pool.recvd)
    /\ \A i \in 1..Len(pool.emitted) :
          \E v \in Vals \ fnFail :
             /\ pool.emitted[i] = FnVal(v)
             /\ Occ(pool.recvd, v) = 1
             /\ Occ(pool.emitted, FnVal(v)) = 1
    /\ \A w \in PoolHolding : Occ(pool.emitted, PoolHeldResult(w)) = 0

\* a result send pre-empted by cancellation: the item is dropped
C35_Witness ==
    /\ ctxDone /\ fnFail = {} /\ pool.workers = 2
    /\ \A w \in PoolWorkers : pool.wpc[w] = "exited"
    /\ Len(pool.recvd) = 3 /\ pool.emitted = <<FnVal(2)>>
    /\ pool.closes = 1

\* what the stages in flight still hold, from the last stage back to the
\* first, each carried through the stages after it
RECURSIVE PipeInFlight(_)
PipeInFlight(j) ==
    IF j = 0 THEN <<>>
    ELSE (IF pipe.spc[j] = "send"
          THEN Composed(SubSeq(pipe.stages, j + 1, Len(pipe.stages)), <<pipe.held[j]>>)
          ELSE <<>>) \o PipeInFlight(j - 1)

\* C37: at every moment, cancelled or not, what Map and Filter stages have
\* emitted is a prefix of the stages applied to the input: f item-wise for
\* a Map, the items satisfying the predicate for a Filter; cancellation
\* only cuts the output short. Until the context is cancelled the emitted
\* items and the ones the stages hold are exactly the stages applied to
\* the items taken from the input: only cancellation drops an item.
C37_StageOutputIsPrefix ==
    (pipe.pc = "running" /\ pipe.stages # <<>>) =>
        /\ IsPrefix(pipe.got, Composed(pipe.stages, pipe.src))
        /\ ~ctxDone =>
              pipe.got \o PipeInFlight(Len(pipe.stages))
                 = Composed(pipe.stages,
                            SubSeq(pipe.src, 1, Len(pipe.src) - Len(pipe.input)))

\* a Map and a Filter cut short by cancellation: 4 was emitted, 6 was not
C37_Witness ==
    /\ pipe.pc = "running" /\ ctxDone
    /\ pipe.stages = <<"double", "big">> /\ pipe.src = Iota(3)
    /\ pipe.got = <<4>> /\ pipe.input = <<>>
    /\ pipe.spc[1] = "exited" /\ pipe.spc[2] = "exited"

\* C38: Retry returns nil only if some invocation of fn returned nil, and
\* it returns without having invoked fn only when the context was
\* cancelled, whatever MaxRetries is.
C38_NilOnlyAfterSuccess ==
    retry.pc = "returned" =>
        /\ retry.ret = RetryNil
              => \E i \in 1..Len(retry.outcomes) : retry.outcomes[i].kind = "nil"
        /\ retry.outcomes = <<>> => (ctxDone /\ retry.ret = RetryCtxErr)

\* C39: under concurrent Execute calls an open breaker changes state only
\* to half-open, and only when resetTimeout has elapsed since the last
\* recorded failure; no call that finishes while the breaker is open sets
\* it to closed or resets the failure count.
C39_OpenLeavesViaHalfOpen ==
    [][cb.state = StateOpen =>
          /\ cb'.state \in {StateOpen, StateHalfOpen}
          /\ cb'.state = StateHalfOpen
                => cb.now - cb.lastFailureTime >= cb.resetTimeout
          /\ cb'.failureCount >= cb.failureCount]_vars

\* the capacity of the bucket, from what the constructor was given
RlCapacity ==
    IF rl.kind = "rate" THEN rl.limit
    ELSE LET b == IF rl.burstArg <= 0 THEN rl.limit ELSE rl.burstArg
         IN  IF b > 2 * rl.limit THEN 2 * rl.limit ELSE b

\* a call of Allow returns
AllowReturns == Len(rl'.allowed) = Len(rl.allowed) + 1

\* only Allow has been called on the limiter since it was made
OnlyAllowCalled == ~rl.refilled /\ rl.waits = <<>> /\ rl.mpc = "idle"

\* C31: a rate limiter holds between 0 and capacity tokens (limit for
\* RateLimiter; burst, defaulting to limit and capped at 2*limit, for
\* BurstRateLimit); Allow returns true exactly when a token is there and
\* then takes one; on a fresh limiter with no Refill the first capacity
\* calls of Allow return true and every later one false.
C31_TokenBucket ==
    /\ [](rl.pc = "limiter" => rl.tokens \in 0..RlCapacity)
    /\ [][AllowReturns =>
             /\ rl'.allowed[Len(rl'.allowed)] = (rl.tokens > 0)
             /\ rl'.tokens = IF rl.tokens > 0 THEN rl.tokens - 1 ELSE rl.tokens]_vars
    /\ [](OnlyAllowCalled =>
             \A i \in 1..Len(rl.allowed) : rl.allowed[i] = (i <= RlCapacity))

C31_Witness ==
    /\ rl.pc = "limiter" /\ rl.kind = "burst"
    /\ rl.limitArg = 1 /\ rl.burstArg = 3
    /\ OnlyAllowCalled
    /\ rl.allowed = <<TRUE, TRUE, FALSE>>
    /\ rl.tokens = 0

\* the input of RateLimit is closed and drained
RlInputDrained == rl.pc = "stage" /\ rl.inClosed /\ rl.input = <<>>

\* the main goroutine of RateLimit has returned and closed the output
RlOutputClosed == rl.mpc = "exited" /\ rl.closes = 1

\* C40: when the input of RateLimit is closed and drained and the context
\* is not cancelled, the output is closed and every goroutine RateLimit
\* started, the refill goroutine included, terminates.
C40_RateLimitTerminates ==
    RlInputDrained ~> (RlOutputClosed /\ rl.tpc = "exited")

\* the part of it that is about the output
RateLimitOutputCloses == RlInputDrained ~> RlOutputClosed

====
